---- MODULE Spec2Model ----
(***************************************************************************)
(* A2A-Udemy-Course: the demo servers' executors and task store.           *)
(*                                                                         *)
(* Each server of the repository is its own program; `server` says which   *)
(* one a behaviour runs.  A coroutine runs without interruption between    *)
(* two awaits.  A coroutine suspended at an await is at the program        *)
(* counter named after that await; its next step performs the awaited      *)
(* operation (the event is put on the queue, the sleep is over, the lock   *)
(* is taken) and runs the code that follows up to the next await.          *)
(***************************************************************************)
EXTENDS Integers, Sequences, FiniteSets, TLC

\* ------------------------------------------------------------------ bounds
NumTasks == 2
MaxRuns == 3
MaxCancels == 2
MaxBellaRuns == 2
MaxOrder == 3
MaxPage == 2
MaxHistoryLength == 3
MaxAnswerLen == 450
MaxCalls == 3
MaxPolls == 3
MaxC30Runs == 2

\* ------------------------------------------------------- program constants
DURATION_SECONDS == 30
ProgressEvery == 5
BellaSteps == 6
chunk_size == 220
WorkingSteps == 3

TaskIds == 1..NumTasks
Runs == 1..MaxRuns
Calls == 1..MaxCancels
NoTask == 0
NoObj == 0

TerminalStates == {"completed", "failed", "rejected", "canceled"}
TaskStates ==
    {"submitted", "working", "input-required"} \cup TerminalStates

VARIABLES
    server,      \* which demo server the process runs
    nextTask,    \* ids handed out so far by new_task / the request handler
    rpc,         \* execute run -> the await it is suspended at
    rtask,       \* execute run -> task.id
    rsec,        \* execute run -> loop variable (sec, or _ of range(6))
    rev,         \* execute run -> its local cancel_ev (an Event object)
    rnew,        \* execute run -> is_new_task
    events,      \* task id -> the events enqueued for it, in order
    status,      \* task id -> status.state of the stored task ("none": not stored)
    table,       \* CANCEL_EVENT_BY_TASK_ID: task id -> Event object
    flagSet,     \* the asyncio.Event objects that are set
    nextObj,     \* Event objects created so far
    cpc,         \* cancel call -> position
    ctask,       \* cancel call -> context.task_id
    ccur,        \* cancel call -> context.current_task.status.state
    cancelled,   \* BellaVistaExecutor._cancelled
    lock,        \* BellaVistaExecutor._lock: 0 free, or the run holding it
    phase,       \* PHASE_BY_TASK_ID: task id -> phase ("none": no entry)
    flagSetAt,   \* task id -> where its execute run stood when cancel set the flag
    tasks,       \* InspectableInMemoryTaskStore._tasks: task id -> Task
    created_order, \* InspectableInMemoryTaskStore._created_order
    req,         \* the arguments of the last list_snapshot call
    resp,        \* what that call returned: the dicts and the next token
    acc,         \* the task ids of the pages a client has followed so far
    chain,       \* whether that client is still following next tokens
    rmsg,        \* execute run -> whether context.message is there
    rcfg,        \* execute run -> context.configuration's history_length
    snapshots,   \* task id -> the histories of the Task snapshots enqueued
    answer,      \* FootballStreamingExecutor.execute: answer, its characters
    chunkEvents, \* the artifact update events that run enqueued, in order
    calls,       \* store call -> the method, its arguments, where it stands
    store_lock,  \* InspectableInMemoryTaskStore._lock: the call that holds it
    created_at,  \* InspectableInMemoryTaskStore._created_at
    now,         \* what time.time() returns
    ppc,         \* 04_Polling/client main: where it stands
    ptask,       \* that client's task.id
    poll_no,     \* that client's poll_no
    polled,      \* the task.status.state of each poll that client printed
    gate,        \* 16_Advanced_Versioning gate: the request and where it stands
    rreg,        \* execute run bound to a stored task -> what it began with
    timers       \* c30 runs at sleep(1.0), in the order their sleeps began

execVars ==
    <<server, nextTask, rpc, rtask, rsec, rev, rnew, events, status, table,
      flagSet, nextObj, cpc, ctask, ccur, cancelled, lock, phase, flagSetAt>>

storeVars == <<tasks, created_order, req, resp, acc, chain>>

\* What an execute run of a server without cancellation, phases or store
\* leaves alone.
idleVars ==
    <<rsec, rev, rnew, table, flagSet, nextObj, cpc, ctask, ccur, cancelled,
      lock, phase, flagSetAt>>

cfgVars == <<rmsg, rcfg, snapshots>>

chunkVars == <<answer, chunkEvents>>

lockVars == <<calls, store_lock, created_at, now>>

pollVars == <<ppc, ptask, poll_no, polled>>

gateVars == <<gate>>

boundVars == <<rreg, timers>>

moreVars == <<lockVars, pollVars, gateVars, boundVars>>

restVars == <<cfgVars, chunkVars, moreVars>>

vars == <<execVars, storeVars, restVars>>

\* ------------------------------------------------------------------ events
TaskEvent(st, who) ==
    [kind |-> "task", state |-> st, sec |-> 0, by |-> who]
StatusEvent(st, s, who) ==
    [kind |-> "status", state |-> st, sec |-> s, by |-> who]
ArtifactEvent(who) ==
    [kind |-> "artifact", state |-> "-", sec |-> 0, by |-> who]
MessageEvent(who) ==
    [kind |-> "message", state |-> "-", sec |-> 0, by |-> who]

ByRun(r) == <<"execute", r>>
ByCall(c) == <<"cancel", c>>

\* The Task Aggregator's fold of one event into the stored status.state.
Fold(prev, ev) ==
    IF prev \in TerminalStates THEN prev
    ELSE IF ev.kind \in {"task", "status"} THEN ev.state
    ELSE prev

\* event_queue.enqueue_event(ev) for task t, and the fold that follows it.
Enqueue(t, ev) ==
    /\ events' = [events EXCEPT ![t] = Append(@, ev)]
    /\ status' = [status EXCEPT ![t] = Fold(@, ev)]

\* Python's None, where a string of characters may stand, and where a plain
\* string may stand; the value of req and resp when no call was made.
None == <<"<None>">>
NoneStr == "<None>"
NoCall == [call |-> FALSE]

\* history_length: not given (no configuration, or none in it), or a number.
NoLength == [given |-> FALSE, n |-> 0]
Length(n) == [given |-> TRUE, n |-> n]

\* A run that is not bound to a stored task.  For a bound run: the state of
\* context.current_task, and whether a cancel call for the task had set a
\* flag before the run began.
NotBound == [state |-> "none", cancel_before |-> FALSE]

\* The versioning server before its first request.
NoRequest ==
    [pc |-> "idle", path |-> <<>>, requested |-> NoneStr,
     authorization |-> None, verified |-> FALSE, answer |-> "-"]

\* The calls of the task store in flight; no call holds the lock; a slot
\* in which no call was made yet.
StoreCalls == 1..MaxCalls
NoCaller == 0
NoStoreCall ==
    [op |-> "none", id |-> NoTask, st |-> None, ret |-> None,
     is_new |-> FALSE, pc |-> "idle"]

\* ------------------------------------------------------------------- Init
InitFor(s) ==
    /\ server = s
    /\ nextTask = 0
    /\ rpc = [r \in Runs |-> "idle"]
    /\ rtask = [r \in Runs |-> NoTask]
    /\ rsec = [r \in Runs |-> 0]
    /\ rev = [r \in Runs |-> NoObj]
    /\ rnew = [r \in Runs |-> FALSE]
    /\ events = [t \in TaskIds |-> <<>>]
    /\ status = [t \in TaskIds |-> "none"]
    /\ table = [t \in TaskIds |-> NoObj]
    /\ flagSet = {}
    /\ nextObj = 0
    /\ cpc = [c \in Calls |-> "idle"]
    /\ ctask = [c \in Calls |-> NoTask]
    /\ ccur = [c \in Calls |-> "none"]
    /\ cancelled = {}
    /\ lock = 0
    /\ phase = [t \in TaskIds |-> "none"]
    /\ flagSetAt = [t \in TaskIds |-> <<"unset", 0>>]
    /\ tasks = <<>>
    /\ created_order = <<>>
    /\ req = NoCall
    /\ resp = NoCall
    /\ acc = <<>>
    /\ chain = "none"
    /\ rmsg = [r \in Runs |-> TRUE]
    /\ rcfg = [r \in Runs |-> NoLength]
    /\ snapshots = [t \in TaskIds |-> <<>>]
    /\ answer = <<>>
    /\ chunkEvents = <<>>
    /\ calls = [o \in StoreCalls |-> NoStoreCall]
    /\ store_lock = NoCaller
    /\ created_at = <<>>
    /\ now = 0
    /\ ppc = "idle"
    /\ ptask = NoTask
    /\ poll_no = 0
    /\ polled = <<>>
    /\ gate = NoRequest
    /\ rreg = [r \in Runs |-> NotBound]
    /\ timers = <<>>

\* ===================================================== 10_CancelTasks/server
\* dict.get(task_id), and a new asyncio.Event stored under it when absent.
GetOrCreateFlag(t) ==
    IF table[t] # NoObj
        THEN /\ UNCHANGED <<table, nextObj>>
        ELSE /\ nextObj' = nextObj + 1
             /\ table' = [table EXCEPT ![t] = nextObj + 1]

FlagOf(t) == IF table[t] # NoObj THEN table[t] ELSE nextObj + 1

\* execute, lines 56-63: new_task, the flag registered, suspended at the
\* enqueue of the task snapshot.  The model follows one long-running task of
\* this server: tasks share nothing but the table, which is keyed by task id.
C30Start(r) ==
    /\ server = "c30"
    /\ rpc[r] = "idle"
    /\ \A q \in Runs : rpc[q] = "idle" /\ r <= q
    /\ nextTask = 0
    /\ LET t == nextTask + 1 IN
        /\ nextTask' = t
        /\ rtask' = [rtask EXCEPT ![r] = t]
        /\ rnew' = [rnew EXCEPT ![r] = TRUE]
        /\ rev' = [rev EXCEPT ![r] = FlagOf(t)]
        /\ GetOrCreateFlag(t)
    /\ rpc' = [rpc EXCEPT ![r] = "snapshot"]
    /\ UNCHANGED <<storeVars, restVars, server, rsec, events, status, flagSet, cpc, ctask, ccur,
                   cancelled, lock, phase, flagSetAt>>

\* lines 63-71: the snapshot is enqueued; suspended at update_status(working).
C30Snapshot(r) ==
    /\ server = "c30"
    /\ rpc[r] = "snapshot"
    /\ Enqueue(rtask[r],
               TaskEvent(IF rnew[r] THEN "submitted" ELSE rreg[r].state,
                         ByRun(r)))
    /\ rpc' = [rpc EXCEPT ![r] = "accepted"]
    /\ UNCHANGED <<storeVars, restVars, server, nextTask, rtask, rsec, rev, rnew, table, flagSet,
                   nextObj, cpc, ctask, ccur, cancelled, lock, phase, flagSetAt>>

\* lines 66-75: working is enqueued; the loop starts, suspended at sleep(1.0).
C30Accepted(r) ==
    /\ server = "c30"
    /\ rpc[r] = "accepted"
    /\ Enqueue(rtask[r], StatusEvent("working", 0, ByRun(r)))
    /\ rsec' = [rsec EXCEPT ![r] = 1]
    /\ rpc' = [rpc EXCEPT ![r] = "sleep"]
    /\ timers' = Append(timers, r)
    /\ UNCHANGED <<storeVars, cfgVars, chunkVars, lockVars, pollVars, gateVars, rreg, server, nextTask, rtask, rev, rnew, table, flagSet,
                   nextObj, cpc, ctask, ccur, cancelled, lock, phase, flagSetAt>>

\* A loop that never reports progress.
C30AfterCheckNoProgress(sec) ==
    IF sec < DURATION_SECONDS THEN <<"sleep", sec + 1>> ELSE <<"artifact", sec>>

\* Where the run goes after the check of line 77 found the flag unset.
C30AfterCheck(sec) ==
    IF sec % ProgressEvery = 0 THEN <<"progress", sec>>
    ELSE IF sec < DURATION_SECONDS THEN <<"sleep", sec + 1>>
    ELSE <<"artifact", sec>>

\* line 77: the flag the run holds is set.
C30FlagObserved(r) == rev[r] \in flagSet

\* lines 75-86: the sleep is over; the flag is checked.  Sleeps of one
\* second end in the order they began, and the event loop resumes every
\* run that is ready before it waits for a timer.
C30Wake(r) ==
    /\ server = "c30"
    /\ rpc[r] = "sleep"
    /\ timers # <<>> /\ Head(timers) = r
    /\ \A q \in Runs : rpc[q] \in {"idle", "sleep", "done"}
    /\ IF C30FlagObserved(r)
        THEN /\ rpc' = [rpc EXCEPT ![r] = "canceling"]
             /\ UNCHANGED rsec
        ELSE /\ rpc' = [rpc EXCEPT ![r] = C30AfterCheck(rsec[r])[1]]
             /\ rsec' = [rsec EXCEPT ![r] = C30AfterCheck(rsec[r])[2]]
    /\ timers' = IF rpc'[r] = "sleep" THEN Append(Tail(timers), r)
                  ELSE Tail(timers)
    /\ UNCHANGED <<storeVars, cfgVars, chunkVars, lockVars, pollVars, gateVars, rreg, server, nextTask, rtask, rev, rnew, events, status, table,
                   flagSet, nextObj, cpc, ctask, ccur, cancelled, lock, phase,
                   flagSetAt>>

\* A loop that enqueues canceled and goes on instead of returning.
C30CancelingGoesOn(r) ==
    /\ server = "c30"
    /\ rpc[r] = "canceling"
    /\ Enqueue(rtask[r], StatusEvent("canceled", rsec[r], ByRun(r)))
    /\ table' = [table EXCEPT ![rtask[r]] = NoObj]
    /\ rpc' = [rpc EXCEPT ![r] = "artifact"]
    /\ UNCHANGED <<storeVars, restVars, server, nextTask, rtask, rsec, rev, rnew, flagSet, nextObj,
                   cpc, ctask, ccur, cancelled, lock, phase, flagSetAt>>

\* lines 79-84: canceled is enqueued, the table entry popped, return.
C30Canceling(r) ==
    /\ server = "c30"
    /\ rpc[r] = "canceling"
    /\ Enqueue(rtask[r], StatusEvent("canceled", rsec[r], ByRun(r)))
    /\ table' = [table EXCEPT ![rtask[r]] = NoObj]
    /\ rpc' = [rpc EXCEPT ![r] = "done"]
    /\ UNCHANGED <<storeVars, restVars, server, nextTask, rtask, rsec, rev, rnew, flagSet, nextObj,
                   cpc, ctask, ccur, cancelled, lock, phase, flagSetAt>>

\* lines 86-92: the progress update is enqueued; next iteration or loop end.
C30Progress(r) ==
    /\ server = "c30"
    /\ rpc[r] = "progress"
    /\ Enqueue(rtask[r], StatusEvent("working", rsec[r], ByRun(r)))
    /\ IF rsec[r] < DURATION_SECONDS
        THEN /\ rsec' = [rsec EXCEPT ![r] = @ + 1]
             /\ rpc' = [rpc EXCEPT ![r] = "sleep"]
             /\ timers' = Append(timers, r)
        ELSE /\ rpc' = [rpc EXCEPT ![r] = "artifact"]
             /\ UNCHANGED <<rsec, timers>>
    /\ UNCHANGED <<storeVars, cfgVars, chunkVars, lockVars, pollVars, gateVars, rreg, server, nextTask, rtask, rev, rnew, table, flagSet,
                   nextObj, cpc, ctask, ccur, cancelled, lock, phase, flagSetAt>>

\* lines 95-98: the artifact is enqueued; suspended at complete.
C30Artifact(r) ==
    /\ server = "c30"
    /\ rpc[r] = "artifact"
    /\ Enqueue(rtask[r], ArtifactEvent(ByRun(r)))
    /\ rpc' = [rpc EXCEPT ![r] = "complete"]
    /\ UNCHANGED <<storeVars, restVars, server, nextTask, rtask, rsec, rev, rnew, table, flagSet,
                   nextObj, cpc, ctask, ccur, cancelled, lock, phase, flagSetAt>>

\* lines 99-103: completed is enqueued, the table entry popped, return.
C30Complete(r) ==
    /\ server = "c30"
    /\ rpc[r] = "complete"
    /\ Enqueue(rtask[r], StatusEvent("completed", 0, ByRun(r)))
    /\ table' = [table EXCEPT ![rtask[r]] = NoObj]
    /\ rpc' = [rpc EXCEPT ![r] = "done"]
    /\ UNCHANGED <<storeVars, restVars, server, nextTask, rtask, rsec, rev, rnew, flagSet, nextObj,
                   cpc, ctask, ccur, cancelled, lock, phase, flagSetAt>>

\* The request handler builds the cancel call's context: task_id and the
\* current_task it loaded from the store (t = NoTask: no task id given).
\* Call slots are taken in order. BellaVistaExecutor.cancel reads neither, and
\* is called for a stored task.
CancelBegin(c, t) ==
    /\ server \in {"c30", "bella"}
    /\ cpc[c] = "idle"
    /\ \A d \in Calls : d < c => cpc[d] # "idle"
    /\ IF t = NoTask THEN server = "c30" ELSE t <= nextTask
    /\ server = "bella" => status[t] # "none"
    /\ ctask' = [ctask EXCEPT ![c] = t]
    /\ ccur' = [ccur EXCEPT ![c] = IF t = NoTask THEN "none" ELSE status[t]]
    /\ cpc' = [cpc EXCEPT ![c] = "called"]
    /\ UNCHANGED <<storeVars, restVars, server, nextTask, rpc, rtask, rsec, rev, rnew, events,
                   status, table, flagSet, nextObj, cancelled, lock, phase,
                   flagSetAt>>

\* Where the execute run of task t stands.
RunAt(t) ==
    IF \E r \in Runs : rtask[r] = t
        THEN LET r == CHOOSE q \in Runs : rtask[q] = t IN <<rpc[r], rsec[r]>>
        ELSE <<"none", 0>>

\* A terminal check that forgets canceled.
C30NotCancelableButCanceled(st) == st \in {"completed", "failed", "rejected"}

\* cancel, line 123: the states that make the call fail with NotCancelable.
C30NotCancelable(st) == st \in TerminalStates

\* cancel, lines 112-131: the checks, then the flag is fetched or created
\* and set; suspended at update_status(canceled).
C30CancelBody(c) ==
    /\ server = "c30"
    /\ cpc[c] = "called"
    /\ IF ctask[c] = NoTask \/ ccur[c] = "none"
        THEN /\ cpc' = [cpc EXCEPT ![c] = "invalidParams"]
             /\ UNCHANGED <<table, nextObj, flagSet, flagSetAt>>
        ELSE IF C30NotCancelable(ccur[c])
        THEN /\ cpc' = [cpc EXCEPT ![c] = "notCancelable"]
             /\ UNCHANGED <<table, nextObj, flagSet, flagSetAt>>
        ELSE /\ GetOrCreateFlag(ctask[c])
             /\ flagSet' = flagSet \cup {FlagOf(ctask[c])}
             /\ flagSetAt' =
                    [flagSetAt EXCEPT ![ctask[c]] =
                        IF @[1] = "unset" THEN RunAt(ctask[c]) ELSE @]
             /\ cpc' = [cpc EXCEPT ![c] = "emit"]
    /\ UNCHANGED <<storeVars, restVars, server, nextTask, rpc, rtask, rsec, rev, rnew, events,
                   status, ctask, ccur, cancelled, lock, phase>>

\* A cancel that returns without enqueuing canceled.
C30CancelEmitNothing(c) ==
    /\ server = "c30"
    /\ cpc[c] = "emit"
    /\ cpc' = [cpc EXCEPT ![c] = "ok"]
    /\ UNCHANGED <<storeVars, restVars, server, nextTask, rpc, rtask, rsec, rev, rnew, events,
                   status, table, flagSet, nextObj, ctask, ccur, cancelled, lock,
                   phase, flagSetAt>>

\* cancel, lines 134-138: canceled is enqueued; the call returns.
C30CancelEmit(c) ==
    /\ server = "c30"
    /\ cpc[c] = "emit"
    /\ Enqueue(ctask[c], StatusEvent("canceled", 0, ByCall(c)))
    /\ cpc' = [cpc EXCEPT ![c] = "ok"]
    /\ UNCHANGED <<storeVars, restVars, server, nextTask, rpc, rtask, rsec, rev, rnew, table,
                   flagSet, nextObj, ctask, ccur, cancelled, lock, phase,
                   flagSetAt>>

NextC30 ==
    \/ \E r \in Runs : C30Start(r)
    \/ \E r \in Runs : C30Snapshot(r)
    \/ \E r \in Runs : C30Accepted(r)
    \/ \E r \in Runs : C30Wake(r)
    \/ \E r \in Runs : C30Canceling(r)
    \/ \E r \in Runs : C30Progress(r)
    \/ \E r \in Runs : C30Artifact(r)
    \/ \E r \in Runs : C30Complete(r)
    \/ \E c \in Calls, t \in TaskIds \cup {NoTask} : CancelBegin(c, t)
    \/ \E c \in Calls : C30CancelBody(c)
    \/ \E c \in Calls : C30CancelEmit(c)

InitC30 == InitFor("c30")
SpecCancel == InitC30 /\ [][NextC30]_vars

\* A cancel call for task t has set a flag.
CancelHasSet(t) == \E c \in Calls : ctask[c] = t /\ cpc[c] \in {"emit", "ok"}

\* An invocation bound to a stored task that makes a flag of its own.
C30StartBoundOwnFlag(r, t) ==
    /\ server = "c30"
    /\ r <= MaxC30Runs
    /\ rpc[r] = "idle"
    /\ \A q \in Runs : q < r => rpc[q] # "idle"
    /\ t <= nextTask
    /\ status[t] \notin TerminalStates \cup {"none"}
    /\ rtask' = [rtask EXCEPT ![r] = t]
    /\ rnew' = [rnew EXCEPT ![r] = FALSE]
    /\ rreg' = [rreg EXCEPT ![r] =
                    [state |-> status[t], cancel_before |-> CancelHasSet(t)]]
    /\ rev' = [rev EXCEPT ![r] = nextObj + 1]
    /\ nextObj' = nextObj + 1
    /\ table' = [table EXCEPT ![t] = nextObj + 1]
    /\ rpc' = [rpc EXCEPT ![r] = "snapshot"]
    /\ UNCHANGED <<storeVars, cfgVars, chunkVars, lockVars, pollVars, gateVars,
                   timers, server, nextTask, rsec, events, status, flagSet, cpc, ctask,
                   ccur, cancelled, lock, phase, flagSetAt>>

\* execute, lines 56-63, for a message bound to a stored task that is not
\* terminal: task is context.current_task; the flag in the table is taken, or
\* one is made; suspended at the enqueue of the task snapshot.  Run slots
\* are taken in order, MaxC30Runs in all.
C30StartBound(r, t) ==
    /\ server = "c30"
    /\ r <= MaxC30Runs
    /\ rpc[r] = "idle"
    /\ \A q \in Runs : q < r => rpc[q] # "idle"
    /\ t <= nextTask
    /\ status[t] \notin TerminalStates \cup {"none"}
    /\ rtask' = [rtask EXCEPT ![r] = t]
    /\ rnew' = [rnew EXCEPT ![r] = FALSE]
    /\ rreg' = [rreg EXCEPT ![r] =
                    [state |-> status[t], cancel_before |-> CancelHasSet(t)]]
    /\ rev' = [rev EXCEPT ![r] = FlagOf(t)]
    /\ GetOrCreateFlag(t)
    /\ rpc' = [rpc EXCEPT ![r] = "snapshot"]
    /\ UNCHANGED <<storeVars, cfgVars, chunkVars, lockVars, pollVars, gateVars,
                   timers, server, nextTask, rsec, events, status, flagSet, cpc, ctask,
                   ccur, cancelled, lock, phase, flagSetAt>>

\* The server with further messages bound to its task.
NextC30Runs ==
    \/ NextC30
    \/ \E r \in Runs, t \in TaskIds : C30StartBound(r, t)

SpecCancelRuns == InitC30 /\ [][NextC30Runs]_vars

\* A step of execute run r.  The event loop resumes a coroutine whose await
\* is over: a sleep ends, the queue takes the event.
C30RunStep(r) ==
    \/ C30Snapshot(r)
    \/ C30Accepted(r)
    \/ C30Wake(r)
    \/ C30Canceling(r)
    \/ C30Progress(r)
    \/ C30Artifact(r)
    \/ C30Complete(r)

SpecCancelFair == SpecCancel /\ \A r \in Runs : WF_vars(C30RunStep(r))

\* ====================================================== shared/bella_vista
\* The request handler binds an execute call to a task id.  The model follows
\* one task id of this server (tasks share nothing but the set, which holds
\* task ids): its first invocation, then later invocations, each after the
\* one before it has returned, MaxBellaRuns in all.  Run slots are taken in
\* order.
BellaStart(r, t) ==
    /\ server = "bella"
    /\ r <= MaxBellaRuns
    /\ rpc[r] = "idle"
    /\ \A q \in Runs : q < r => rpc[q] = "done"
    /\ t = 1
    /\ nextTask' = t
    /\ rtask' = [rtask EXCEPT ![r] = t]
    /\ rpc' = [rpc EXCEPT ![r] = "b_working"]
    /\ UNCHANGED <<storeVars, restVars, server, rsec, rev, rnew, events, status, table, flagSet,
                   nextObj, cpc, ctask, ccur, cancelled, lock, phase, flagSetAt>>

\* lines 75-87: working is enqueued; the loop starts, suspended at sleep(0.5).
BellaWorking(r) ==
    /\ server = "bella"
    /\ rpc[r] = "b_working"
    /\ Enqueue(rtask[r], StatusEvent("working", 0, ByRun(r)))
    /\ rsec' = [rsec EXCEPT ![r] = 1]
    /\ rpc' = [rpc EXCEPT ![r] = "b_sleep"]
    /\ UNCHANGED <<storeVars, restVars, server, nextTask, rtask, rev, rnew, table, flagSet,
                   nextObj, cpc, ctask, ccur, cancelled, lock, phase, flagSetAt>>

\* lines 87-88: the sleep is over; suspended at the lock.
BellaWake(r) ==
    /\ server = "bella"
    /\ rpc[r] = "b_sleep"
    /\ rpc' = [rpc EXCEPT ![r] = "b_lock"]
    /\ UNCHANGED <<storeVars, restVars, server, nextTask, rtask, rsec, rev, rnew, events, status,
                   table, flagSet, nextObj, cpc, ctask, ccur, cancelled, lock,
                   phase, flagSetAt>>

\* line 89: the test made under the lock.
BellaObserved(r) == rtask[r] \in cancelled

\* lines 88-107: the lock is taken and the mark tested: marked, the run stays
\* in the lock, suspended at the enqueue of canceled; unmarked, it leaves the
\* lock for the next sleep or, after the last one, the enqueue of the artifact.
BellaCheck(r) ==
    /\ server = "bella"
    /\ rpc[r] = "b_lock"
    /\ lock = 0
    /\ IF BellaObserved(r)
        THEN /\ lock' = r
             /\ rpc' = [rpc EXCEPT ![r] = "b_canceling"]
             /\ UNCHANGED rsec
        ELSE /\ UNCHANGED lock
             /\ IF rsec[r] < BellaSteps
                 THEN /\ rsec' = [rsec EXCEPT ![r] = @ + 1]
                      /\ rpc' = [rpc EXCEPT ![r] = "b_sleep"]
                 ELSE /\ rpc' = [rpc EXCEPT ![r] = "b_artifact"]
                      /\ UNCHANGED rsec
    /\ UNCHANGED <<storeVars, restVars, server, nextTask, rtask, rev, rnew, events, status, table,
                   flagSet, nextObj, cpc, ctask, ccur, cancelled, phase,
                   flagSetAt>>

\* lines 97-105: canceled is enqueued; return, which leaves the lock.
BellaCanceling(r) ==
    /\ server = "bella"
    /\ rpc[r] = "b_canceling"
    /\ Enqueue(rtask[r], StatusEvent("canceled", rsec[r], ByRun(r)))
    /\ lock' = 0
    /\ rpc' = [rpc EXCEPT ![r] = "done"]
    /\ UNCHANGED <<storeVars, restVars, server, nextTask, rtask, rsec, rev, rnew, table, flagSet,
                   nextObj, cpc, ctask, ccur, cancelled, phase, flagSetAt>>

\* lines 108-123: the artifact is enqueued; suspended at the enqueue of completed.
BellaArtifact(r) ==
    /\ server = "bella"
    /\ rpc[r] = "b_artifact"
    /\ Enqueue(rtask[r], ArtifactEvent(ByRun(r)))
    /\ rpc' = [rpc EXCEPT ![r] = "b_complete"]
    /\ UNCHANGED <<storeVars, restVars, server, nextTask, rtask, rsec, rev, rnew, table, flagSet,
                   nextObj, cpc, ctask, ccur, cancelled, lock, phase, flagSetAt>>

\* lines 126-136: completed is enqueued; suspended at the lock of the cleanup.
BellaComplete(r) ==
    /\ server = "bella"
    /\ rpc[r] = "b_complete"
    /\ Enqueue(rtask[r], StatusEvent("completed", 0, ByRun(r)))
    /\ rpc' = [rpc EXCEPT ![r] = "b_cleanup"]
    /\ UNCHANGED <<storeVars, restVars, server, nextTask, rtask, rsec, rev, rnew, table, flagSet,
                   nextObj, cpc, ctask, ccur, cancelled, lock, phase, flagSetAt>>

\* lines 136-137: the mark is discarded under the lock; return.
BellaCleanup(r) ==
    /\ server = "bella"
    /\ rpc[r] = "b_cleanup"
    /\ lock = 0
    /\ cancelled' = cancelled \ {rtask[r]}
    /\ rpc' = [rpc EXCEPT ![r] = "done"]
    /\ UNCHANGED <<storeVars, restVars, server, nextTask, rtask, rsec, rev, rnew, events, status,
                   table, flagSet, nextObj, cpc, ctask, ccur, lock, phase,
                   flagSetAt>>

\* cancel, lines 140-146: the task id is marked under the lock; suspended at
\* the enqueue of canceled.
BellaCancelMark(c) ==
    /\ server = "bella"
    /\ cpc[c] = "called"
    /\ lock = 0
    /\ cancelled' = cancelled \cup {ctask[c]}
    /\ cpc' = [cpc EXCEPT ![c] = "emit"]
    /\ UNCHANGED <<storeVars, restVars, server, nextTask, rpc, rtask, rsec, rev, rnew, events,
                   status, table, flagSet, nextObj, ctask, ccur, lock, phase,
                   flagSetAt>>

\* cancel, lines 150-164: canceled is enqueued; the call returns.
BellaCancelEmit(c) ==
    /\ server = "bella"
    /\ cpc[c] = "emit"
    /\ Enqueue(ctask[c], StatusEvent("canceled", 0, ByCall(c)))
    /\ cpc' = [cpc EXCEPT ![c] = "ok"]
    /\ UNCHANGED <<storeVars, restVars, server, nextTask, rpc, rtask, rsec, rev, rnew, table,
                   flagSet, nextObj, ctask, ccur, cancelled, lock, phase,
                   flagSetAt>>

NextBella ==
    \/ \E r \in Runs, t \in TaskIds : BellaStart(r, t)
    \/ \E r \in Runs : BellaWorking(r)
    \/ \E r \in Runs : BellaWake(r)
    \/ \E r \in Runs : BellaCheck(r)
    \/ \E r \in Runs : BellaCanceling(r)
    \/ \E r \in Runs : BellaArtifact(r)
    \/ \E r \in Runs : BellaComplete(r)
    \/ \E r \in Runs : BellaCleanup(r)
    \/ \E c \in Calls, t \in TaskIds : CancelBegin(c, t)
    \/ \E c \in Calls : BellaCancelMark(c)
    \/ \E c \in Calls : BellaCancelEmit(c)

InitBella == InitFor("bella")
SpecBella == InitBella /\ [][NextBella]_vars

\* ================================================= 07_MultiTurn_Context/server
\* A turn 1 that records no phase.
PhaseForgotten == "none"

\* line 69: the phase recorded by turn 1.
PhaseAfterTurn1 == "awaiting_name"

\* lines 58-86: the phase is read; turn 1 records its phase and is suspended at
\* update_status(working), turn 2 is suspended at its own update_status(working).
MultiBranch(r, t) ==
    IF phase[t] = "none"
        THEN /\ phase' = [phase EXCEPT ![t] = PhaseAfterTurn1]
             /\ rpc' = [rpc EXCEPT ![r] = "m1_working"]
        ELSE /\ UNCHANGED phase
             /\ rpc' = [rpc EXCEPT ![r] = "m2_working"]

\* lines 46-54: a message without a stored task: new_task; suspended at the
\* enqueue of the snapshot.  Run slots are taken in order.
MultiStartNew(r) ==
    /\ server = "multi"
    /\ rpc[r] = "idle"
    /\ \A q \in Runs : q < r => rpc[q] # "idle"
    /\ nextTask < NumTasks
    /\ nextTask' = nextTask + 1
    /\ rtask' = [rtask EXCEPT ![r] = nextTask + 1]
    /\ rnew' = [rnew EXCEPT ![r] = TRUE]
    /\ rpc' = [rpc EXCEPT ![r] = "m_snapshot"]
    /\ UNCHANGED <<storeVars, restVars, server, rsec, rev, events, status, table, flagSet, nextObj,
                   cpc, ctask, ccur, cancelled, lock, phase, flagSetAt>>

\* An invocation bound to a stored task that enqueues the snapshot all the
\* same.
MultiStartBoundWithSnapshot(r, t) ==
    /\ server = "multi"
    /\ rpc[r] = "idle"
    /\ \A q \in Runs : q < r => rpc[q] # "idle"
    /\ status[t] \notin TerminalStates \cup {"none"}
    /\ rtask' = [rtask EXCEPT ![r] = t]
    /\ rnew' = [rnew EXCEPT ![r] = FALSE]
    /\ rpc' = [rpc EXCEPT ![r] = "m_snapshot"]
    /\ UNCHANGED <<storeVars, restVars, server, nextTask, rsec, rev, events,
                   status, table, flagSet, nextObj, cpc, ctask, ccur, cancelled,
                   lock, phase, flagSetAt>>

\* lines 46-86: a message bound to a stored task that is not terminal
\* (current_task is present): no snapshot, the phase is read at once.
MultiStartBound(r, t) ==
    /\ server = "multi"
    /\ rpc[r] = "idle"
    /\ \A q \in Runs : q < r => rpc[q] # "idle"
    /\ status[t] \notin TerminalStates \cup {"none"}
    /\ rtask' = [rtask EXCEPT ![r] = t]
    /\ rnew' = [rnew EXCEPT ![r] = FALSE]
    /\ MultiBranch(r, t)
    /\ UNCHANGED <<storeVars, restVars, server, nextTask, rsec, rev, events, status, table, flagSet,
                   nextObj, cpc, ctask, ccur, cancelled, lock, flagSetAt>>

\* lines 54-86: the snapshot is enqueued, then the phase is read.
MultiSnapshot(r) ==
    /\ server = "multi"
    /\ rpc[r] = "m_snapshot"
    /\ Enqueue(rtask[r], TaskEvent("submitted", ByRun(r)))
    /\ MultiBranch(r, rtask[r])
    /\ UNCHANGED <<storeVars, restVars, server, nextTask, rtask, rsec, rev, rnew, table, flagSet,
                   nextObj, cpc, ctask, ccur, cancelled, lock, flagSetAt>>

\* lines 72-78: turn 1, working is enqueued; suspended at sleep(1.0).
Multi1Working(r) ==
    /\ server = "multi"
    /\ rpc[r] = "m1_working"
    /\ Enqueue(rtask[r], StatusEvent("working", 0, ByRun(r)))
    /\ rpc' = [rpc EXCEPT ![r] = "m1_sleep"]
    /\ UNCHANGED <<storeVars, restVars, server, nextTask, rtask, rsec, rev, rnew, table, flagSet,
                   nextObj, cpc, ctask, ccur, cancelled, lock, phase, flagSetAt>>

\* lines 78-80: the sleep is over; suspended at update_status(input_required).
Multi1Wake(r) ==
    /\ server = "multi"
    /\ rpc[r] = "m1_sleep"
    /\ rpc' = [rpc EXCEPT ![r] = "m1_input"]
    /\ UNCHANGED <<storeVars, restVars, server, nextTask, rtask, rsec, rev, rnew, events, status,
                   table, flagSet, nextObj, cpc, ctask, ccur, cancelled, lock,
                   phase, flagSetAt>>

\* A turn 1 that returns without enqueuing input_required.
Multi1InputMissing(r) ==
    /\ server = "multi"
    /\ rpc[r] = "m1_input"
    /\ rpc' = [rpc EXCEPT ![r] = "done"]
    /\ UNCHANGED <<storeVars, restVars, server, nextTask, rtask, rsec, rev, rnew, events, status,
                   table, flagSet, nextObj, cpc, ctask, ccur, cancelled, lock,
                   phase, flagSetAt>>

\* lines 80-84: input_required is enqueued; return.
Multi1Input(r) ==
    /\ server = "multi"
    /\ rpc[r] = "m1_input"
    /\ Enqueue(rtask[r], StatusEvent("input-required", 0, ByRun(r)))
    /\ rpc' = [rpc EXCEPT ![r] = "done"]
    /\ UNCHANGED <<storeVars, restVars, server, nextTask, rtask, rsec, rev, rnew, table, flagSet,
                   nextObj, cpc, ctask, ccur, cancelled, lock, phase, flagSetAt>>

\* lines 90-94: turn 2, working is enqueued; suspended at sleep(1.0).
Multi2Working(r) ==
    /\ server = "multi"
    /\ rpc[r] = "m2_working"
    /\ Enqueue(rtask[r], StatusEvent("working", 0, ByRun(r)))
    /\ rpc' = [rpc EXCEPT ![r] = "m2_sleep"]
    /\ UNCHANGED <<storeVars, restVars, server, nextTask, rtask, rsec, rev, rnew, table, flagSet,
                   nextObj, cpc, ctask, ccur, cancelled, lock, phase, flagSetAt>>

\* lines 94-96: the sleep is over; suspended at add_artifact.
Multi2Wake(r) ==
    /\ server = "multi"
    /\ rpc[r] = "m2_sleep"
    /\ rpc' = [rpc EXCEPT ![r] = "m2_artifact"]
    /\ UNCHANGED <<storeVars, restVars, server, nextTask, rtask, rsec, rev, rnew, events, status,
                   table, flagSet, nextObj, cpc, ctask, ccur, cancelled, lock,
                   phase, flagSetAt>>

\* lines 96-101: the artifact is enqueued; suspended at complete.
Multi2Artifact(r) ==
    /\ server = "multi"
    /\ rpc[r] = "m2_artifact"
    /\ Enqueue(rtask[r], ArtifactEvent(ByRun(r)))
    /\ rpc' = [rpc EXCEPT ![r] = "m2_complete"]
    /\ UNCHANGED <<storeVars, restVars, server, nextTask, rtask, rsec, rev, rnew, table, flagSet,
                   nextObj, cpc, ctask, ccur, cancelled, lock, phase, flagSetAt>>

\* lines 101-106: completed is enqueued, the phase entry popped; return.
Multi2Complete(r) ==
    /\ server = "multi"
    /\ rpc[r] = "m2_complete"
    /\ Enqueue(rtask[r], StatusEvent("completed", 0, ByRun(r)))
    /\ phase' = [phase EXCEPT ![rtask[r]] = "none"]
    /\ rpc' = [rpc EXCEPT ![r] = "done"]
    /\ UNCHANGED <<storeVars, restVars, server, nextTask, rtask, rsec, rev, rnew, table, flagSet,
                   nextObj, cpc, ctask, ccur, cancelled, lock, flagSetAt>>

NextMulti ==
    \/ \E r \in Runs : MultiStartNew(r)
    \/ \E r \in Runs, t \in TaskIds : MultiStartBound(r, t)
    \/ \E r \in Runs : MultiSnapshot(r)
    \/ \E r \in Runs : Multi1Working(r)
    \/ \E r \in Runs : Multi1Wake(r)
    \/ \E r \in Runs : Multi1Input(r)
    \/ \E r \in Runs : Multi2Working(r)
    \/ \E r \in Runs : Multi2Wake(r)
    \/ \E r \in Runs : Multi2Artifact(r)
    \/ \E r \in Runs : Multi2Complete(r)

InitMulti == InitFor("multi")
SpecMulti == InitMulti /\ [][NextMulti]_vars

\* ============================================================== shared/echo
\* lines 28-36: the reply is built; suspended at its enqueue.
EchoStart(r) ==
    /\ server = "echo"
    /\ rpc[r] = "idle"
    /\ \A q \in Runs : q < r => rpc[q] # "idle"
    /\ nextTask < NumTasks
    /\ nextTask' = nextTask + 1
    /\ rtask' = [rtask EXCEPT ![r] = nextTask + 1]
    /\ rpc' = [rpc EXCEPT ![r] = "e_reply"]
    /\ UNCHANGED <<storeVars, restVars, server, rsec, rev, rnew, events, status, table, flagSet,
                   nextObj, cpc, ctask, ccur, cancelled, lock, phase, flagSetAt>>

\* line 36: the Message is enqueued; return.
EchoReply(r) ==
    /\ server = "echo"
    /\ rpc[r] = "e_reply"
    /\ Enqueue(rtask[r], MessageEvent(ByRun(r)))
    /\ rpc' = [rpc EXCEPT ![r] = "done"]
    /\ UNCHANGED <<storeVars, restVars, server, nextTask, rtask, rsec, rev, rnew, table, flagSet,
                   nextObj, cpc, ctask, ccur, cancelled, lock, phase, flagSetAt>>

NextEcho ==
    \/ \E r \in Runs : EchoStart(r)
    \/ \E r \in Runs : EchoReply(r)

\* ===================================================== 10_ListTasks/server
\* Strings the code takes apart are sequences of characters.
S_working == <<"w", "o", "r", "k", "i", "n", "g">>
S_completed == <<"c", "o", "m", "p", "l", "e", "t", "e", "d">>

Whitespace == {" ", "\t", "\n"}
Uppers == <<"A", "B", "C", "D", "E", "F", "G", "H", "I", "J", "K", "L", "M",
            "N", "O", "P", "Q", "R", "S", "T", "U", "V", "W", "X", "Y", "Z">>
Lowers == <<"a", "b", "c", "d", "e", "f", "g", "h", "i", "j", "k", "l", "m",
            "n", "o", "p", "q", "r", "s", "t", "u", "v", "w", "x", "y", "z">>
Digits == <<"0", "1", "2", "3", "4", "5", "6", "7", "8", "9">>

\* str.lower()
LowerChar(ch) ==
    IF \E i \in DOMAIN Uppers : Uppers[i] = ch
        THEN Lowers[CHOOSE i \in DOMAIN Uppers : Uppers[i] = ch]
        ELSE ch
\* A comparison that keeps the case of the filter.
LowerKeepsCase(s) == s
Lower(s) == [i \in DOMAIN s |-> LowerChar(s[i])]

\* str.strip()
RECURSIVE LStrip(_)
LStrip(s) ==
    IF s # <<>> /\ Head(s) \in Whitespace THEN LStrip(Tail(s)) ELSE s
RECURSIVE RStrip(_)
RStrip(s) ==
    IF s # <<>> /\ s[Len(s)] \in Whitespace
        THEN RStrip(SubSeq(s, 1, Len(s) - 1))
        ELSE s
Strip(s) == RStrip(LStrip(s))

\* int(s): surrounding whitespace and one sign are accepted, then decimal
\* digits; anything else raises ValueError (ok = FALSE).
IsDigit(ch) == \E i \in DOMAIN Digits : Digits[i] = ch
DigitValue(ch) == (CHOOSE i \in DOMAIN Digits : Digits[i] = ch) - 1
RECURSIVE DigitsValue(_)
DigitsValue(s) ==
    IF s = <<>> THEN 0
    ELSE 10 * DigitsValue(SubSeq(s, 1, Len(s) - 1)) + DigitValue(s[Len(s)])
IntOf(s) ==
    LET t == Strip(s)
        signed == t # <<>> /\ Head(t) \in {"+", "-"}
        body == IF signed THEN Tail(t) ELSE t
    IN  IF body # <<>> /\ \A i \in DOMAIN body : IsDigit(body[i])
            THEN [ok |-> TRUE,
                  val |-> IF signed /\ Head(t) = "-"
                            THEN 0 - DigitsValue(body)
                            ELSE DigitsValue(body)]
            ELSE [ok |-> FALSE, val |-> 0]

\* str(n)
RECURSIVE NatStr(_)
NatStr(n) ==
    IF n < 10 THEN <<Digits[n + 1]>>
    ELSE NatStr(n \div 10) \o <<Digits[(n % 10) + 1]>>
Str(n) == IF n < 0 THEN <<"-">> \o NatStr(0 - n) ELSE NatStr(n)

\* s[a:b]
PySlice(s, a, b) ==
    LET n == Len(s)
        lo == IF a < 0 THEN (IF n + a < 0 THEN 0 ELSE n + a)
              ELSE (IF a > n THEN n ELSE a)
        hi == IF b < 0 THEN (IF n + b < 0 THEN 0 ELSE n + b)
              ELSE (IF b > n THEN n ELSE b)
    IN  IF lo >= hi THEN <<>> ELSE SubSeq(s, lo + 1, hi)

\* lines 95-98: the offset a page token stands for.
OffsetOf(page_token) ==
    IF page_token # None /\ page_token # <<>>
        THEN (IF IntOf(page_token).ok THEN IntOf(page_token).val ELSE 0)
        ELSE 0

\* line 100: status_norm.
StatusNorm(st) ==
    IF st # None /\ st # <<>> THEN Lower(Strip(st)) ELSE None

\* lines 110-118: whether the loop keeps task t.
Keeps(t, context_id, status_norm) ==
    /\ ~ (context_id # NoneStr /\ context_id # "" /\ t.context_id # context_id)
    /\ ~ (status_norm # None /\ status_norm # <<>> /\ t.state # status_norm)

\* lines 100-119: the ids of `filtered`.
Filtered(context_id, st) ==
    LET status_norm == StatusNorm(st)
    IN  SelectSeq(created_order,
                  LAMBDA id : /\ id \in DOMAIN tasks
                              /\ Keeps(tasks[id], context_id, status_norm))

\* line 128: model_dump(exclude_none=True), a new dict.
Dump(t) ==
    [k \in {"id", "contextId", "status"}
            \cup (IF t.history # None THEN {"history"} ELSE {})
            \cup (IF t.artifacts # None THEN {"artifacts"} ELSE {}) |->
        CASE k = "id" -> t.id
          [] k = "contextId" -> t.context_id
          [] k = "status" -> t.state
          [] k = "history" -> t.history
          [] k = "artifacts" -> t.artifacts]

\* dict.pop(key, None)
Pop(d, key) == [k \in DOMAIN d \ {key} |-> d[k]]

\* A projection that leaves the history in.
EntryWithHistory(t, include_artifacts) ==
    IF include_artifacts THEN Dump(t) ELSE Pop(Dump(t), "artifacts")

\* lines 128-136: one entry of the response.
Entry(t, include_artifacts) ==
    IF include_artifacts
        THEN Pop(Dump(t), "history")
        ELSE Pop(Pop(Dump(t), "history"), "artifacts")

\* lines 95-139: list_snapshot's result.
ListSnapshot(context_id, st, include_artifacts, page_size, page_token) ==
    LET offset == OffsetOf(page_token)
        filtered == Filtered(context_id, st)
        total == Len(filtered)
        page == PySlice(filtered, offset, offset + page_size)
    IN  [call |-> TRUE,
         page |-> page,
         out |-> [i \in DOMAIN page |-> Entry(tasks[page[i]], include_artifacts)],
         next |-> IF offset + page_size < total
                    THEN Str(offset + page_size)
                    ELSE None]

Request(context_id, st, include_artifacts, page_size, page_token) ==
    [call |-> TRUE, context_id |-> context_id, status |-> st,
     include_artifacts |-> include_artifacts, page_size |-> page_size,
     page_token |-> page_token]

\* What the executor of this server saves for a task: a task in working has
\* its first messages and no artifact, a completed one has both.
StoredTask(id, context_id, st) ==
    [id |-> id, context_id |-> context_id, state |-> st,
     history |-> IF st = S_working THEN <<"m1">> ELSE <<"m1", "m2">>,
     artifacts |-> IF st = S_working THEN None ELSE <<"a1">>]

ContextIds == {"c1", "c2"}
StoredStates == {S_working, S_completed}

\* The arguments the model draws for a listing.
ContextFilters == {NoneStr, "", "c1"}
StatusFilters ==
    {None, S_completed, <<" ", "W", "o", "r", "k", "i", "n", "g">>,
     <<"d", "o", "n", "e">>, <<" ">>}
PageTokens ==
    {<<>>, <<" ", "1">>, <<"-", "1">>, <<"a", "b", "c">>}

\* The ids given out so far; task ids are given out in order.
IdsCreated ==
    IF created_order = <<>> THEN 0
    ELSE CHOOSE m \in 1..Len(created_order) :
            /\ \E i \in DOMAIN created_order : created_order[i] = m
            /\ \A i \in DOMAIN created_order : created_order[i] <= m

\* A save that appends the id every time.
OrderAlwaysAppended(id) == Append(created_order, id)

\* lines 69-73: what save appends to _created_order.
OrderAfterSave(id) ==
    IF id \notin DOMAIN tasks THEN Append(created_order, id) ELSE created_order

\* The model follows one client of the store at a time: a listing is followed
\* or dropped (ListDone) before the next call is made.
\* save, lines 67-73.
StoreSave(id, context_id, st) ==
    /\ server = "list"
    /\ ~ req.call
    /\ id <= IdsCreated + 1
    /\ id \notin DOMAIN tasks => Len(created_order) < MaxOrder
    /\ id \in DOMAIN tasks => tasks[id].context_id = context_id
    /\ tasks' = [k \in DOMAIN tasks \cup {id} |->
                    IF k = id THEN StoredTask(id, context_id, st) ELSE tasks[k]]
    /\ created_order' = OrderAfterSave(id)
    /\ UNCHANGED <<req, resp, acc, chain, execVars, restVars>>

\* delete, lines 75-80.
StoreDelete(id) ==
    /\ server = "list"
    /\ ~ req.call
    /\ id \in DOMAIN tasks
    /\ tasks' = [k \in DOMAIN tasks \ {id} |-> tasks[k]]
    /\ UNCHANGED <<created_order, req, resp, acc, chain, execVars, restVars>>

\* list_snapshot without a page token: a client starts to page.
ListFirst(context_id, st, include_artifacts, page_size) ==
    /\ server = "list"
    /\ ~ req.call
    /\ LET r == ListSnapshot(context_id, st, include_artifacts, page_size, None)
       IN  /\ resp' = r
           /\ acc' = r.page
           /\ chain' = IF r.next = None THEN "ended" ELSE "following"
    /\ req' = Request(context_id, st, include_artifacts, page_size, None)
    /\ UNCHANGED <<tasks, created_order, execVars, restVars>>

\* list_snapshot with the token the last page returned.
ListNext ==
    /\ server = "list"
    /\ chain = "following"
    /\ LET r == ListSnapshot(req.context_id, req.status, req.include_artifacts,
                             req.page_size, resp.next)
       IN  /\ resp' = r
           /\ acc' = acc \o r.page
           /\ chain' = IF r.next = None THEN "ended" ELSE "following"
    /\ req' = [req EXCEPT !.page_token = resp.next]
    /\ UNCHANGED <<tasks, created_order, execVars, restVars>>

\* list_snapshot with a page token of the caller's own making.
ListAt(page_size, page_token) ==
    /\ server = "list"
    /\ ~ req.call
    /\ LET r == ListSnapshot(NoneStr, None, FALSE, page_size, page_token)
       IN  /\ resp' = r
    /\ req' = Request(NoneStr, None, FALSE, page_size, page_token)
    /\ acc' = <<>>
    /\ chain' = "none"
    /\ UNCHANGED <<tasks, created_order, execVars, restVars>>

\* The client is done with the pages it was given.
ListDone ==
    /\ server = "list"
    /\ req.call
    /\ req' = NoCall
    /\ resp' = NoCall
    /\ acc' = <<>>
    /\ chain' = "none"
    /\ UNCHANGED <<tasks, created_order, execVars, restVars>>

NextList ==
    \/ \E id \in 1..MaxOrder, c \in ContextIds, st \in StoredStates :
            StoreSave(id, c, st)
    \/ \E id \in 1..MaxOrder : StoreDelete(id)
    \/ \E c \in ContextFilters, st \in StatusFilters, ia \in BOOLEAN,
          ps \in 1..MaxPage : ListFirst(c, st, ia, ps)
    \/ ListNext
    \/ \E ps \in 1..MaxPage, pt \in PageTokens : ListAt(ps, pt)
    \/ ListDone

InitList == InitFor("list")
SpecList == InitList /\ [][NextList]_vars

\* ------------------------------------- 10_ListTasks/server: the store's lock
\* Calls of get, save, delete and list_snapshot that are in flight together.
\* `async with self._lock` awaits the lock: a call stands before it
\* ("waiting"), holds it ("in"), or has returned ("done").  The model
\* follows MaxCalls calls, made in the order of their slots.

\* The calls the model makes: op, task id, and the state of the task to save.
StoreRequests ==
    {<<op, id, None>> : op \in {"get", "delete"}, id \in TaskIds}
        \cup {<<"save", id, st>> : id \in TaskIds, st \in StoredStates}
        \cup {<<"list", NoTask, None>>}

\* lines 71-73: what save leaves in _created_at.
CreatedAtAfterSave(id) ==
    IF id \notin DOMAIN tasks
    THEN [k \in DOMAIN created_at \cup {id} |->
            IF k = id THEN now ELSE created_at[k]]
    ELSE created_at

\* A request handler calls a method of the store.
StoreCall(o, op, id, st) ==
    /\ server = "store"
    /\ calls[o].pc = "idle"
    /\ \A q \in StoreCalls : q < o => calls[q].pc # "idle"
    /\ calls' = [calls EXCEPT ![o] =
                    [op |-> op, id |-> id, st |-> st, ret |-> None,
                     is_new |-> FALSE, pc |-> "waiting"]]
    /\ UNCHANGED <<store_lock, created_at, now, storeVars, execVars, cfgVars,
                   chunkVars, pollVars, gateVars, boundVars>>

\* lines 64, 68, 78, 102: the lock is free and the call takes it.
LockEnter(o) ==
    /\ server = "store"
    /\ calls[o].pc = "waiting"
    /\ store_lock = NoCaller
    /\ store_lock' = o
    /\ calls' = [calls EXCEPT ![o].pc = "in"]
    /\ UNCHANGED <<created_at, now, storeVars, execVars, cfgVars, chunkVars,
                   pollVars, gateVars, boundVars>>

\* The call returns what it found and the lock is released.
LockLeave(o, ret, is_new) ==
    /\ store_lock' = NoCaller
    /\ calls' = [calls EXCEPT ![o].pc = "done", ![o].ret = ret,
                              ![o].is_new = is_new]

\* get, line 65.
LockedGet(o) ==
    /\ server = "store"
    /\ calls[o].pc = "in"
    /\ calls[o].op = "get"
    /\ LockLeave(o, IF calls[o].id \in DOMAIN tasks
                    THEN tasks[calls[o].id].state ELSE None, FALSE)
    /\ UNCHANGED <<created_at, now, storeVars, execVars, cfgVars, chunkVars,
                   pollVars, gateVars, boundVars>>

\* save, lines 69-73.  time.time() is read when the id is new; each reading
\* is later than the one before.
LockedSave(o) ==
    /\ server = "store"
    /\ calls[o].pc = "in"
    /\ calls[o].op = "save"
    /\ LET id == calls[o].id
       IN  /\ tasks' = [k \in DOMAIN tasks \cup {id} |->
                            IF k = id THEN StoredTask(id, "c1", calls[o].st)
                            ELSE tasks[k]]
           /\ created_order' = OrderAfterSave(id)
           /\ created_at' = CreatedAtAfterSave(id)
           /\ now' = IF id \notin DOMAIN tasks THEN now + 1 ELSE now
           /\ LockLeave(o, None, id \notin DOMAIN tasks)
    /\ UNCHANGED <<req, resp, acc, chain, execVars, cfgVars, chunkVars,
                   pollVars, gateVars, boundVars>>

\* delete, line 79.
LockedDelete(o) ==
    /\ server = "store"
    /\ calls[o].pc = "in"
    /\ calls[o].op = "delete"
    /\ tasks' = [k \in DOMAIN tasks \ {calls[o].id} |-> tasks[k]]
    /\ LockLeave(o, None, FALSE)
    /\ UNCHANGED <<created_at, now, created_order, req, resp, acc, chain,
                   execVars, cfgVars, chunkVars, pollVars, gateVars, boundVars>>

\* list_snapshot, lines 102-139: it reads the store and changes nothing in
\* it.
LockedList(o) ==
    /\ server = "store"
    /\ calls[o].pc = "in"
    /\ calls[o].op = "list"
    /\ LockLeave(o, None, FALSE)
    /\ UNCHANGED <<created_at, now, storeVars, execVars, cfgVars, chunkVars,
                   pollVars, gateVars, boundVars>>

NextStore ==
    \/ \E o \in StoreCalls, q \in StoreRequests : StoreCall(o, q[1], q[2], q[3])
    \/ \E o \in StoreCalls : LockEnter(o)
    \/ \E o \in StoreCalls : LockedGet(o)
    \/ \E o \in StoreCalls : LockedSave(o)
    \/ \E o \in StoreCalls : LockedDelete(o)
    \/ \E o \in StoreCalls : LockedList(o)

InitStore == InitFor("store")
SpecStore == InitStore /\ [][NextStore]_vars


\* ======================================= executors whose execute can raise
\* The request handler gives the run its task id (context.task_id, or the id
\* new_task will draw).  Run slots are taken in order.
BindRun(r, pos) ==
    /\ rpc[r] = "idle"
    /\ \A q \in Runs : q < r => rpc[q] # "idle"
    /\ nextTask < NumTasks
    /\ nextTask' = nextTask + 1
    /\ rtask' = [rtask EXCEPT ![r] = nextTask + 1]
    /\ rpc' = [rpc EXCEPT ![r] = pos]
    /\ UNCHANGED <<storeVars, restVars, server, idleVars, events, status>>

\* A step of run r from one await to the next that enqueues nothing.
RunMoves(r, from, to) ==
    /\ rpc[r] = from
    /\ rpc' = [rpc EXCEPT ![r] = to]
    /\ UNCHANGED <<storeVars, restVars, server, idleVars, nextTask, rtask, events,
                   status>>

\* A step of run r that enqueues ev for its task.
RunEnqueues(r, from, ev, to) ==
    /\ rpc[r] = from
    /\ Enqueue(rtask[r], ev)
    /\ rpc' = [rpc EXCEPT ![r] = to]
    /\ UNCHANGED <<storeVars, restVars, server, idleVars, nextTask, rtask>>

\* ---- 06_FileExchange/server_uri: UriUploadExecutor.execute
\* lines 48-52: a message with a file part; suspended at http.get.
UriStart(r) == server = "uri" /\ BindRun(r, "u_get")
\* line 48: a message without a file part: [0] raises IndexError.
UriNoFilePart(r) == server = "uri" /\ BindRun(r, "raised")
\* lines 52-53: the request fails or raise_for_status raises.
UriGetFails(r) == server = "uri" /\ RunMoves(r, "u_get", "raised")
\* lines 52-82: the file is fetched; suspended at the enqueue of the task.
UriGot(r) == server = "uri" /\ RunMoves(r, "u_get", "u_task")
\* line 82: the completed task is enqueued; return.
UriTask(r) ==
    /\ server = "uri"
    /\ RunEnqueues(r, "u_task", TaskEvent("completed", ByRun(r)), "done")

NextUri ==
    \/ \E r \in Runs : UriStart(r)
    \/ \E r \in Runs : UriNoFilePart(r)
    \/ \E r \in Runs : UriGetFails(r)
    \/ \E r \in Runs : UriGot(r)
    \/ \E r \in Runs : UriTask(r)

\* ---- 15_Capstone_Orchestrator/orchestrator: OrchestratorExecutor.execute
\* lines 69-74: suspended at the loading of the agent cards.
OrchStart(r) == server = "orch" /\ BindRun(r, "o_cards")
\* lines 73-105, outside the try: a card cannot be loaded, or a client cannot
\* connect; the error leaves execute.
OrchSetupFails(r) == server = "orch" /\ RunMoves(r, "o_cards", "raised")
\* lines 73-129: cards and clients are there; suspended at router.ainvoke.
OrchSetup(r) == server = "orch" /\ RunMoves(r, "o_cards", "o_router")
\* lines 129-142: the router answers; suspended at send_message.
OrchRouted(r) == server = "orch" /\ RunMoves(r, "o_router", "o_send")
\* lines 142-181: the remote agent answers; suspended at finalizer.ainvoke.
OrchAnswered(r) == server = "orch" /\ RunMoves(r, "o_send", "o_final")
\* lines 129-184, inside the try: the router, the remote agent or the
\* finalizer raises; control goes to the finally clause.
OrchStepFails(r) ==
    /\ server = "orch"
    /\ \E p \in {"o_router", "o_send", "o_final"} : RunMoves(r, p, "o_close_err")
\* lines 181-188: the final answer is there; suspended at the enqueue of the
\* new task.
OrchFinal(r) == server = "orch" /\ RunMoves(r, "o_final", "o_task")
\* line 188: the task is enqueued; suspended at updater.complete.
OrchTask(r) ==
    /\ server = "orch"
    /\ RunEnqueues(r, "o_task", TaskEvent("submitted", ByRun(r)), "o_complete")
\* lines 191-207: completed is enqueued; suspended at the closing of the clients.
OrchComplete(r) ==
    /\ server = "orch"
    /\ RunEnqueues(r, "o_complete", StatusEvent("completed", 0, ByRun(r)),
                   "o_close")
\* lines 206-208: the clients are closed; return, or the error goes on.
OrchClose(r) ==
    /\ server = "orch"
    /\ \/ RunMoves(r, "o_close", "done")
       \/ RunMoves(r, "o_close_err", "raised")

NextOrch ==
    \/ \E r \in Runs : OrchStart(r)
    \/ \E r \in Runs : OrchSetupFails(r)
    \/ \E r \in Runs : OrchSetup(r)
    \/ \E r \in Runs : OrchRouted(r)
    \/ \E r \in Runs : OrchAnswered(r)
    \/ \E r \in Runs : OrchStepFails(r)
    \/ \E r \in Runs : OrchFinal(r)
    \/ \E r \in Runs : OrchTask(r)
    \/ \E r \in Runs : OrchComplete(r)
    \/ \E r \in Runs : OrchClose(r)

\* ---- 16_Advanced_Versioning/server: CardOnlyExecutor.execute
\* lines 204-207: execute raises ServerError at once.
CardOnlyRaise(r) == server = "card" /\ BindRun(r, "raised")

NextCardOnly == \E r \in Runs : CardOnlyRaise(r)

InitFaults == \E s \in {"uri", "orch", "card"} : InitFor(s)
NextFaults == NextUri \/ NextOrch \/ NextCardOnly
SpecFaults == InitFaults /\ [][NextFaults]_vars

\* ================================================== 04_Configuration/server
\* a2a.utils.task.apply_history_length: 0 and None leave the history whole, a
\* number above 0 keeps the most recent messages.
ApplyHistoryLength(history, history_length) ==
    IF history_length.given /\ history_length.n > 0
            /\ history_length.n < Len(history)
        THEN SubSeq(history, Len(history) - history_length.n + 1, Len(history))
        ELSE history

\* lines 69 and 105: initial_history_full and final_history_full.
InitialHistoryFull == <<"user", "started">>
FinalHistoryFull == <<"user", "started", "done">>

HistoryLengths == {NoLength} \cup {Length(n) : n \in -1..MaxHistoryLength}

\* A check that lets a negative historyLength through.
CfgRejectsOnlyMissing(message, history_length) == ~ message

\* lines 44-51: the requests execute answers with InvalidParams.
CfgRejects(message, history_length) ==
    \/ ~ message
    \/ history_length.given /\ history_length.n < 0

\* lines 44-85: the checks; a valid request is suspended at the enqueue of
\* initial_task.  Run slots are taken in order.
CfgStart(r, message, history_length) ==
    /\ server = "cfg"
    /\ rpc[r] = "idle"
    /\ \A q \in Runs : q < r => rpc[q] # "idle"
    /\ nextTask < NumTasks
    /\ nextTask' = nextTask + 1
    /\ rtask' = [rtask EXCEPT ![r] = nextTask + 1]
    /\ rmsg' = [rmsg EXCEPT ![r] = message]
    /\ rcfg' = [rcfg EXCEPT ![r] = history_length]
    /\ rpc' = [rpc EXCEPT ![r] =
                IF CfgRejects(message, history_length) THEN "raised"
                ELSE "c_initial"]
    /\ UNCHANGED <<storeVars, chunkVars, moreVars, server, idleVars, events, status,
                   snapshots>>

\* lines 84-85 and 119-120: the snapshot, cut by apply_history_length, is
\* enqueued.
CfgEnqueue(r, state, history) ==
    /\ Enqueue(rtask[r], TaskEvent(state, ByRun(r)))
    /\ snapshots' = [snapshots EXCEPT ![rtask[r]] =
                        Append(@, ApplyHistoryLength(history, rcfg[r]))]

\* lines 84-88: initial_task is enqueued; suspended at the sleep.
CfgInitial(r) ==
    /\ server = "cfg"
    /\ rpc[r] = "c_initial"
    /\ CfgEnqueue(r, "working", InitialHistoryFull)
    /\ rpc' = [rpc EXCEPT ![r] = "c_sleep"]
    /\ UNCHANGED <<storeVars, chunkVars, moreVars, server, idleVars, nextTask, rtask, rmsg,
                   rcfg>>

\* lines 88-120: the sleep is over; suspended at the enqueue of final_task.
CfgWake(r) ==
    /\ server = "cfg"
    /\ rpc[r] = "c_sleep"
    /\ rpc' = [rpc EXCEPT ![r] = "c_final"]
    /\ UNCHANGED <<storeVars, chunkVars, moreVars, server, idleVars, nextTask, rtask, events,
                   status, cfgVars>>

\* line 120: final_task is enqueued; return.
CfgFinal(r) ==
    /\ server = "cfg"
    /\ rpc[r] = "c_final"
    /\ CfgEnqueue(r, "completed", FinalHistoryFull)
    /\ rpc' = [rpc EXCEPT ![r] = "done"]
    /\ UNCHANGED <<storeVars, chunkVars, moreVars, server, idleVars, nextTask, rtask, rmsg,
                   rcfg>>

NextCfg ==
    \/ \E r \in Runs, m \in BOOLEAN, hl \in HistoryLengths : CfgStart(r, m, hl)
    \/ \E r \in Runs : CfgInitial(r)
    \/ \E r \in Runs : CfgWake(r)
    \/ \E r \in Runs : CfgFinal(r)

InitCfg == InitFor("cfg")
SpecCfg == InitCfg /\ [][NextCfg]_vars

\* ================================== 15_Capstone_Orchestrator/server_stream
\* line 79: the number of chunks, len(range(0, len(answer), chunk_size)).
NumChunks(text) == (Len(text) + chunk_size - 1) \div chunk_size

\* line 79: chunks.
Chunks(text) ==
    [k \in 1..NumChunks(text) |->
        PySlice(text, (k - 1) * chunk_size, (k - 1) * chunk_size + chunk_size)]

\* An executor that never asks for append.
AppendNever(idx) == "None"

\* line 88: append.
AppendOf(idx) == IF idx > 0 THEN "True" ELSE "None"

\* line 89: last_chunk.
LastChunkOf(idx, text) == IF idx = NumChunks(text) - 1 THEN "True" ELSE "None"

\* lines 46-63: the model answers with n characters; suspended at the enqueue
\* of the new task.  The model follows one run of this server.
FootStart(r, n) ==
    /\ server = "football"
    /\ r = 1
    /\ rpc[r] = "idle"
    /\ nextTask' = 1
    /\ rtask' = [rtask EXCEPT ![r] = 1]
    /\ answer' = [i \in 1..n |-> i]
    /\ rpc' = [rpc EXCEPT ![r] = "f_task"]
    /\ UNCHANGED <<storeVars, cfgVars, moreVars, server, idleVars, events, status,
                   chunkEvents>>

\* A step of the run that enqueues ev and touches no chunk.
FootEnqueues(r, from, ev, to) ==
    /\ server = "football"
    /\ rpc[r] = from
    /\ Enqueue(rtask[r], ev)
    /\ rpc' = [rpc EXCEPT ![r] = to]
    /\ UNCHANGED <<storeVars, restVars, server, idleVars, nextTask,
                   rtask>>

\* line 63: the task is enqueued; suspended at start_work.
FootTask(r) ==
    FootEnqueues(r, "f_task", TaskEvent("submitted", ByRun(r)), "f_start_work")

\* lines 68-83: working is enqueued; the loop starts, or there is no chunk.
FootStartWork(r) ==
    FootEnqueues(r, "f_start_work", StatusEvent("working", 0, ByRun(r)),
                 IF NumChunks(answer) = 0 THEN "f_complete" ELSE "f_chunk")

\* lines 82-91: the chunk of index idx (rsec) is enqueued; suspended at sleep.
FootChunk(r) ==
    /\ server = "football"
    /\ rpc[r] = "f_chunk"
    /\ Enqueue(rtask[r], ArtifactEvent(ByRun(r)))
    /\ chunkEvents' =
            Append(chunkEvents,
                   [artifact_id |-> "football-answer",
                    text |-> Chunks(answer)[rsec[r] + 1],
                    append |-> AppendOf(rsec[r]),
                    last_chunk |-> LastChunkOf(rsec[r], answer)])
    /\ rpc' = [rpc EXCEPT ![r] = "f_sleep"]
    /\ UNCHANGED <<storeVars, cfgVars, moreVars, server, nextTask, rtask, answer, idleVars>>

\* lines 81-94: the sleep is over; the next chunk, or the end of the loop.
FootWake(r) ==
    /\ server = "football"
    /\ rpc[r] = "f_sleep"
    /\ rsec' = [rsec EXCEPT ![r] = @ + 1]
    /\ rpc' = [rpc EXCEPT ![r] =
                IF rsec[r] + 1 < NumChunks(answer) THEN "f_chunk"
                ELSE "f_complete"]
    /\ UNCHANGED <<storeVars, restVars, server, nextTask, rtask, rev, rnew, events,
                   status, table, flagSet, nextObj, cpc, ctask, ccur, cancelled,
                   lock, phase, flagSetAt>>

\* lines 94-100: completed is enqueued; return.
FootComplete(r) ==
    FootEnqueues(r, "f_complete", StatusEvent("completed", 0, ByRun(r)), "done")

NextFoot ==
    \/ \E r \in Runs, n \in 0..MaxAnswerLen : FootStart(r, n)
    \/ \E r \in Runs : FootTask(r)
    \/ \E r \in Runs : FootStartWork(r)
    \/ \E r \in Runs : FootChunk(r)
    \/ \E r \in Runs : FootWake(r)
    \/ \E r \in Runs : FootComplete(r)

InitFoot == InitFor("football")
SpecFoot == InitFoot /\ [][NextFoot]_vars

\* ================================================ 16_Advanced_Versioning/server
\* `server` is the mode the server was started in: "legacy" or "v1".
Modes == {"legacy", "v1"}

\* lines 42-43.
EXTENDED_CARD_PATH_V03 == <<"/", "v", "1", "/", "c", "a", "r", "d">>
EXTENDED_CARD_PATH_V10 ==
    <<"/", "v", "1", "/", "e", "x", "t", "e", "n", "d", "e", "d",
      "A", "g", "e", "n", "t", "C", "a", "r", "d">>

\* str.startswith.
StartsWith(s, prefix) ==
    /\ Len(s) >= Len(prefix)
    /\ SubSeq(s, 1, Len(prefix)) = prefix

\* line 263: the paths the gate looks at.
UnderV1(path) == StartsWith(path, <<"/", "v", "1", "/">>)

\* lines 216-221: supported_versions.
supported_versions(mode) == IF mode = "legacy" THEN {"0.3"} ELSE {"1.0"}

\* lines 103-104: the authorization header carries a bearer token.
HasBearer(authorization) ==
    /\ authorization # None
    /\ authorization # <<>>
    /\ StartsWith(authorization, <<"B", "e", "a", "r", "e", "r", " ">>)

\* The token of the model that jwt.decode accepts against the fetched keys.
GoodToken == <<"B", "e", "a", "r", "e", "r", " ", "g", "o", "o", "d">>

\* The requests the model sends.
GatePaths ==
    {<<"/">>, <<"/", "v", "1">>, <<"/", "d", "o", "c", "s">>,
     <<"/", "v", "1", "/", "t", "a", "s", "k", "s">>,
     EXTENDED_CARD_PATH_V03, EXTENDED_CARD_PATH_V10}
GateVersions == {NoneStr, "0.3", "1.0", "2.0"}
GateAuthorizations ==
    {None, <<"B", "a", "s", "i", "c", " ", "x">>,
     <<"B", "e", "a", "r", "e", "r", " ", "b", "a", "d">>, GoodToken}

\* lines 261-285, up to the first await: the answer of the gate, or where it
\* is suspended: at fetch_jwks ("jwks") or at call_next ("app").
GateDecides(path, requested, authorization) ==
    IF ~ UnderV1(path) THEN <<"app", "-">>
    ELSE IF requested = NoneStr THEN <<"done", "400">>
    ELSE IF requested \notin supported_versions(server) THEN <<"done", "400">>
    ELSE IF path = EXTENDED_CARD_PATH_V03 /\ requested # "0.3"
        THEN <<"done", "400">>
    ELSE IF path = EXTENDED_CARD_PATH_V10 /\ requested # "1.0"
        THEN <<"done", "400">>
    ELSE IF path = EXTENDED_CARD_PATH_V03 \/ path = EXTENDED_CARD_PATH_V10
        THEN IF HasBearer(authorization) THEN <<"jwks", "-">>
             ELSE <<"done", "401">>
    ELSE <<"app", "-">>

\* A request arrives and the gate runs up to its first await.
GateRequest(path, requested, authorization) ==
    /\ server \in Modes
    /\ gate.pc \in {"idle", "done"}
    /\ gate' = [pc |-> GateDecides(path, requested, authorization)[1],
                path |-> path, requested |-> requested,
                authorization |-> authorization, verified |-> FALSE,
                answer |-> GateDecides(path, requested, authorization)[2]]
    /\ UNCHANGED <<execVars, storeVars, cfgVars, chunkVars, lockVars, pollVars,
                   boundVars>>

\* lines 109-120 and 280-285: fetch_jwks returns the keys and the token is
\* decoded: verified, or PermissionError and 401.
GateJwks ==
    /\ server \in Modes
    /\ gate.pc = "jwks"
    /\ gate' = IF gate.authorization = GoodToken
               THEN [gate EXCEPT !.pc = "app", !.verified = TRUE]
               ELSE [gate EXCEPT !.pc = "done", !.answer = "401"]
    /\ UNCHANGED <<execVars, storeVars, cfgVars, chunkVars, lockVars, pollVars,
                   boundVars>>

\* lines 95-99 and 109: http.get or raise_for_status raises in fetch_jwks; the
\* error is no PermissionError and leaves the gate.
GateJwksFails ==
    /\ server \in Modes
    /\ gate.pc = "jwks"
    /\ gate' = [gate EXCEPT !.pc = "done", !.answer = "raised"]
    /\ UNCHANGED <<execVars, storeVars, cfgVars, chunkVars, lockVars, pollVars,
                   boundVars>>

\* lines 264 and 285: call_next: the application answers the request.
GateCallNext ==
    /\ server \in Modes
    /\ gate.pc = "app"
    /\ gate' = [gate EXCEPT !.pc = "done", !.answer = "app"]
    /\ UNCHANGED <<execVars, storeVars, cfgVars, chunkVars, lockVars, pollVars,
                   boundVars>>

NextGate ==
    \/ \E p \in GatePaths, v \in GateVersions, a \in GateAuthorizations :
            GateRequest(p, v, a)
    \/ GateJwks
    \/ GateJwksFails
    \/ GateCallNext

InitGate == \E m \in Modes : InitFor(m)
SpecGate == InitGate /\ [][NextGate]_vars

\* ========================================================= 04_Polling/client
\* The client polls a server at BASE_URL, port 8001: 07_Polling/server or
\* 03_Task_Lifecycle/server.  The model follows one message of the client.

\* ---- 07_Polling/server: PollingDemoExecutor.execute
\* line 29: suspended at the enqueue of the task.
PollDemoStart(r) == server = "polling" /\ r = 1 /\ BindRun(r, "pd_task")
\* lines 31-35: the task is enqueued; suspended at the first update_status.
PollDemoTask(r) ==
    /\ server = "polling"
    /\ RunEnqueues(r, "pd_task", TaskEvent("submitted", ByRun(r)), "pd_working")
\* lines 35-46, 49-60, 63-74: working n/3 is enqueued; suspended at the sleep.
PollDemoWorking(r) ==
    /\ server = "polling"
    /\ rpc[r] = "pd_working"
    /\ Enqueue(rtask[r], StatusEvent("working", rsec[r] + 1, ByRun(r)))
    /\ rsec' = [rsec EXCEPT ![r] = @ + 1]
    /\ rpc' = [rpc EXCEPT ![r] = "pd_sleep"]
    /\ UNCHANGED <<storeVars, restVars, server, nextTask, rtask, rev, rnew,
                   table, flagSet, nextObj, cpc, ctask, ccur, cancelled, lock,
                   phase, flagSetAt>>
\* lines 46, 60, 74: the sleep is over; the next working, or the artifact.
PollDemoWake(r) ==
    /\ server = "polling"
    /\ RunMoves(r, "pd_sleep",
                IF rsec[r] < WorkingSteps THEN "pd_working" ELSE "pd_artifact")
\* lines 77-86: the artifact is enqueued; suspended at complete.
PollDemoArtifact(r) ==
    /\ server = "polling"
    /\ RunEnqueues(r, "pd_artifact", ArtifactEvent(ByRun(r)), "pd_complete")
\* line 88: completed is enqueued; return.
PollDemoComplete(r) ==
    /\ server = "polling"
    /\ RunEnqueues(r, "pd_complete", StatusEvent("completed", 0, ByRun(r)),
                   "done")

\* ---- 03_Task_Lifecycle/server: TaskLifecycleExecutor.execute
\* line 86: the terminal_state the server was started with (--failed,
\* --rejected, or neither); `server` names that server by it.
LifecycleStates == {"completed", "rejected", "failed"}
\* lines 36-72: suspended at the enqueue of the task.
LifecycleStart(r) ==
    /\ server \in LifecycleStates
    /\ r = 1
    /\ BindRun(r, "lc_task")
\* line 74: the task is enqueued in self.terminal_state; return.
LifecycleTask(r) ==
    /\ server \in LifecycleStates
    /\ RunEnqueues(r, "lc_task", TaskEvent(server, ByRun(r)), "done")

\* ---- main
\* lines 44-50: send_message returned the task.
PollSent ==
    /\ ppc = "idle"
    /\ \E r \in Runs : rtask[r] # NoTask /\ status[rtask[r]] # "none"
                       /\ ptask' = rtask[r]
    /\ ppc' = "p_get"
    /\ poll_no' = 0
    /\ UNCHANGED <<polled, lockVars, gateVars, boundVars, cfgVars, chunkVars, storeVars, execVars>>

\* lines 52-61: get_task answers; the loop is left on completed only.
PollGet ==
    /\ ppc = "p_get"
    /\ poll_no < MaxPolls
    /\ poll_no' = poll_no + 1
    /\ polled' = Append(polled, status[ptask])
    /\ ppc' = IF status[ptask] = "completed" THEN "stopped" ELSE "p_sleep"
    /\ UNCHANGED <<ptask, lockVars, gateVars, boundVars, cfgVars, chunkVars, storeVars, execVars>>

\* line 61: the sleep is over.
PollWake ==
    /\ ppc = "p_sleep"
    /\ ppc' = "p_get"
    /\ UNCHANGED <<ptask, poll_no, polled, lockVars, gateVars, boundVars, cfgVars, chunkVars,
                   storeVars, execVars>>

NextPoll ==
    \/ \E r \in Runs : PollDemoStart(r)
    \/ \E r \in Runs : PollDemoTask(r)
    \/ \E r \in Runs : PollDemoWorking(r)
    \/ \E r \in Runs : PollDemoWake(r)
    \/ \E r \in Runs : PollDemoArtifact(r)
    \/ \E r \in Runs : PollDemoComplete(r)
    \/ \E r \in Runs : LifecycleStart(r)
    \/ \E r \in Runs : LifecycleTask(r)
    \/ PollSent
    \/ PollGet
    \/ PollWake

InitPoll == \E s \in {"polling"} \cup LifecycleStates : InitFor(s)
SpecPoll == InitPoll /\ [][NextPoll]_vars


\* The Task Aggregator's fold of one artifact update into the artifacts of
\* the task: append=true adds the parts to the artifact of that id, anything
\* else sets the artifact of that id.
FoldArtifact(arts, ev) ==
    IF \E i \in DOMAIN arts : arts[i].artifact_id = ev.artifact_id
        THEN [i \in DOMAIN arts |->
                IF arts[i].artifact_id # ev.artifact_id THEN arts[i]
                ELSE IF ev.append = "True"
                    THEN [arts[i] EXCEPT !.parts = Append(@, ev.text)]
                    ELSE [arts[i] EXCEPT !.parts = <<ev.text>>]]
        ELSE Append(arts, [artifact_id |-> ev.artifact_id, parts |-> <<ev.text>>])

RECURSIVE FoldArtifacts(_)
FoldArtifacts(evs) ==
    IF evs = <<>> THEN <<>>
    ELSE FoldArtifact(FoldArtifacts(SubSeq(evs, 1, Len(evs) - 1)), evs[Len(evs)])

\* ------------------------------------------------- the executors, together
InitCancelable == InitFor("c30") \/ InitFor("bella")
NextCancelable == NextC30 \/ NextBella
SpecCancelable == InitCancelable /\ [][NextCancelable]_vars

InitExecutors ==
    \E s \in {"c30", "bella", "multi", "echo"} : InitFor(s)
NextExecutors == NextC30 \/ NextBella \/ NextMulti \/ NextEcho
SpecExecutors == InitExecutors /\ [][NextExecutors]_vars

\* ------------------------------------------------------------ observations
\* The events one execute run or one cancel call enqueued for task t, in order.
EventsBy(t, who) == SelectSeq(events[t], LAMBDA e : e.by = who)

\* The same, as <<kind, state>> pairs.
Trace(t, who) ==
    [i \in 1..Len(EventsBy(t, who)) |->
        <<EventsBy(t, who)[i].kind, EventsBy(t, who)[i].state>>]

IsTerminalStatus(e) == e.kind \in {"task", "status"} /\ e.state \in TerminalStates

\* A step of cancel call c out of position p.
CallLeaves(c, p) == cpc[c] = p /\ cpc'[c] # p

\* A step of execute run r out of position p.
RunLeaves(r, p) == rpc[r] = p /\ rpc'[r] # p

\* =================================================================== claims

\* C1: Cancelable30sExecutor.cancel called for a task whose current state is
\* completed, failed, rejected or canceled fails with NotCancelable and does
\* nothing else: the table and the flags stay as they are and no event is
\* enqueued, in that step or later by that call.
C1_TerminalCancelRejected ==
    /\ [][\A c \in Calls :
            (CallLeaves(c, "called") /\ ccur[c] \in TerminalStates)
                => /\ cpc'[c] = "notCancelable"
                   /\ table' = table
                   /\ flagSet' = flagSet
                   /\ nextObj' = nextObj
                   /\ events' = events]_vars
    /\ [](\A c \in Calls :
            cpc[c] = "notCancelable"
                => /\ ccur[c] \in TerminalStates
                   /\ EventsBy(ctask[c], ByCall(c)) = <<>>)

C1_Witness ==
    \E c \in Calls :
        /\ cpc[c] = "notCancelable"
        /\ ccur[c] = "canceled"
        /\ events[ctask[c]] # <<>>

C3_NothingAfterTerminal ==
    \A t \in TaskIds :
        \A i \in DOMAIN events[t] :
            IsTerminalStatus(events[t][i]) => i = Len(events[t])

\* C4: an execute run that finds its task's cancellation flag set enqueues a
\* canceled status event as its next step and returns with it; a canceled
\* status event is the last event of the run that enqueued it.
C4_CancelObservedReturns ==
    /\ [][\A r \in Runs :
            /\ (RunLeaves(r, "sleep") /\ C30FlagObserved(r))
                    => rpc'[r] = "canceling"
            /\ (RunLeaves(r, "b_lock") /\ BellaObserved(r))
                    => rpc'[r] = "b_canceling"
            /\ (RunLeaves(r, "canceling") \/ RunLeaves(r, "b_canceling"))
                    => /\ rpc'[r] = "done"
                       /\ events'[rtask[r]] =
                            Append(events[rtask[r]],
                                   StatusEvent("canceled", rsec[r], ByRun(r)))]_vars
    /\ [](\A r \in Runs :
            rtask[r] # NoTask =>
                \A i \in DOMAIN EventsBy(rtask[r], ByRun(r)) :
                    EventsBy(rtask[r], ByRun(r))[i].state = "canceled"
                        => /\ i = Len(EventsBy(rtask[r], ByRun(r)))
                           /\ rpc[r] = "done")

C4_Witness ==
    \E r \in Runs :
        /\ rpc[r] = "done"
        /\ Len(EventsBy(rtask[r], ByRun(r))) > 1
        /\ EventsBy(rtask[r], ByRun(r))[Len(EventsBy(rtask[r], ByRun(r)))].state
                = "canceled"

\* C5: once cancel has set the flag of a task whose execute run has not
\* returned, the run enqueues canceled at its next check, after at most one
\* further sleep, and never completes the task.
C5_CancelLatencyBounded ==
    \A t \in TaskIds :
        flagSetAt[t][1] \notin {"unset", "none", "done"}
            => \A i \in DOMAIN events[t] :
                events[t][i].by[1] = "execute"
                    => /\ events[t][i].kind # "artifact"
                       /\ events[t][i].state # "completed"
                       /\ events[t][i].state = "canceled"
                            => events[t][i].sec <= flagSetAt[t][2] + 1

\* C9: the invocation that creates a task enqueues the snapshot, working and
\* input_required and returns; an invocation bound to the stored task
\* enqueues working, one artifact and completed.
C9_MultiTurnProtocol ==
    \A r \in Runs :
        rpc[r] = "done"
            => Trace(rtask[r], ByRun(r)) =
                IF rnew[r]
                    THEN << <<"task", "submitted">>, <<"status", "working">>,
                            <<"status", "input-required">> >>
                    ELSE << <<"status", "working">>, <<"artifact", "-">>,
                            <<"status", "completed">> >>

C9_Witness ==
    \E r, q \in Runs :
        /\ rpc[r] = "done" /\ rnew[r]
        /\ rpc[q] = "done" /\ ~rnew[q]
        /\ rtask[r] = rtask[q]
        /\ Len(events[rtask[r]]) = 6
        /\ events[rtask[r]][3].by = ByRun(r)
        /\ events[rtask[r]][4].by = ByRun(q)

\* C10 as stated: every execute that has returned has enqueued a status event
\* or a snapshot whose state is terminal or input_required.
C10_ReturnedRunEmittedPause ==
    \A r \in Runs :
        rpc[r] = "done"
            => \E i \in DOMAIN EventsBy(rtask[r], ByRun(r)) :
                /\ EventsBy(rtask[r], ByRun(r))[i].kind \in {"task", "status"}
                /\ EventsBy(rtask[r], ByRun(r))[i].state
                        \in TerminalStates \cup {"input-required"}

\* C10, amended: an execute that has returned has enqueued such an event,
\* except EchoExecutor's, which has enqueued its one Message and nothing else.
C10_ReturnedRunEmittedPauseOrMessage ==
    \A r \in Runs :
        rpc[r] = "done"
            => IF server = "echo"
                THEN Trace(rtask[r], ByRun(r)) = << <<"message", "-">> >>
                ELSE \E i \in DOMAIN EventsBy(rtask[r], ByRun(r)) :
                        /\ EventsBy(rtask[r], ByRun(r))[i].kind
                                \in {"task", "status"}
                        /\ EventsBy(rtask[r], ByRun(r))[i].state
                                \in TerminalStates \cup {"input-required"}

C10_Witness ==
    \E r \in Runs :
        /\ rpc[r] = "done"
        /\ server = "multi"
        /\ rnew[r]
        /\ status[rtask[r]] = "input-required"

\* ------------------------------------------------- listings, as a client sees them
SeqRange(s) == {s[i] : i \in DOMAIN s}

RECURSIVE Once(_)
Once(s) ==
    IF s = <<>> THEN <<>>
    ELSE LET init == Once(SubSeq(s, 1, Len(s) - 1))
         IN  IF s[Len(s)] \in SeqRange(init) THEN init
             ELSE Append(init, s[Len(s)])

\* The stored tasks the filters of the last call keep, in creation order, each
\* once.
Expected ==
    SelectSeq(Once(created_order),
              LAMBDA id : /\ id \in DOMAIN tasks
                          /\ Keeps(tasks[id], req.context_id,
                                   StatusNorm(req.status)))

Paging == req.call /\ chain # "none"

\* C6: following the next tokens from no token, with the store unchanged, every
\* page has at most page_size tasks, the pages so far are the beginning of the
\* filtered tasks in creation order, each once, and all of them once the token
\* is null; the token is non-null exactly when tasks remain after the page.
C6_PaginationStableComplete ==
    Paging =>
        /\ Len(resp.page) <= req.page_size
        /\ Len(acc) <= Len(Expected)
        /\ acc = SubSeq(Expected, 1, Len(acc))
        /\ (resp.next # None) <=> (Len(acc) < Len(Expected))
        /\ chain = "ended" => acc = Expected

\* The ids an exact comparison with the filters of the last call selects.
ExactlyMatching ==
    {id \in DOMAIN tasks :
        /\ req.context_id # NoneStr => tasks[id].context_id = req.context_id
        /\ req.status # None => tasks[id].state = req.status}

\* C7 (as claimed): the unpaginated result holds a stored task if and only if
\* its context_id equals the context_id filter, when given, and its state is
\* exactly the status filter, when given.
C7_ExactMatch ==
    (Paging /\ chain = "ended") => SeqRange(acc) = ExactlyMatching

\* The state token each status filter of the model selects; "any" where it
\* selects every state.
SelectedState(st) ==
    CASE st = None -> "any"
      [] st = <<" ">> -> "any"
      [] st = <<" ", "W", "o", "r", "k", "i", "n", "g">> -> "working"
      [] st = <<"c", "o", "m", "p", "l", "e", "t", "e", "d">> -> "completed"
      [] st = <<"d", "o", "n", "e">> -> "done"

StateName(t) ==
    CASE t.state = S_working -> "working"
      [] t.state = S_completed -> "completed"

NormallyMatching ==
    {id \in DOMAIN tasks :
        /\ req.context_id \notin {NoneStr, ""}
                => tasks[id].context_id = req.context_id
        /\ SelectedState(req.status) # "any"
                => StateName(tasks[id]) = SelectedState(req.status)}

\* C7 (amended): the unpaginated result holds a stored task if and only if its
\* context_id equals the context_id filter, when a non-empty one is given, and
\* its state equals the status filter with surrounding whitespace removed and
\* in lower case, when a status filter that is not blank is given.
C7_NormalisedMatch ==
    (Paging /\ chain = "ended") => SeqRange(acc) = NormallyMatching

\* C7 witness: a listing filtered by " Working" returned a working task and
\* left a completed one out.
C7_Witness ==
    /\ Paging
    /\ chain = "ended"
    /\ req.status = <<" ", "W", "o", "r", "k", "i", "n", "g">>
    /\ acc # <<>>
    /\ \E id \in DOMAIN tasks : tasks[id].state = S_completed

EntriesStripped ==
    \A i \in DOMAIN resp.out :
        /\ "history" \notin DOMAIN resp.out[i]
        /\ "artifacts" \in DOMAIN resp.out[i] => req.include_artifacts

\* C8: a list_snapshot call returns entries without history, with artifacts
\* only if include_artifacts is true, and leaves the stored tasks, with their
\* history and artifacts, and the creation order as they were.
C8_StrippingIsProjection ==
    [][req'.call /\ (req' # req \/ resp' # resp) =>
            /\ EntriesStripped'
            /\ tasks' = tasks
            /\ created_order' = created_order]_vars

\* C8 witness: a call without include_artifacts returned a task that is stored
\* with a history and an artifact.
C8_Witness ==
    /\ req.call
    /\ ~ req.include_artifacts
    /\ \E i \in DOMAIN resp.page :
            /\ resp.page[i] \in DOMAIN tasks
            /\ tasks[resp.page[i]].history # None
            /\ tasks[resp.page[i]].artifacts # None
            /\ "artifacts" \notin DOMAIN resp.out[i]

\* C11: an execute run that has raised has enqueued a failed status event for
\* its task before, so the task of a run that raised is in a terminal state.
C11_FailedBeforeRaise ==
    \A r \in Runs :
        rpc[r] = "raised"
            => /\ \E i \in DOMAIN EventsBy(rtask[r], ByRun(r)) :
                    /\ EventsBy(rtask[r], ByRun(r))[i].kind = "status"
                    /\ EventsBy(rtask[r], ByRun(r))[i].state = "failed"
               /\ status[rtask[r]] \in TerminalStates

\* C12: ConfigurationDemoExecutor.execute called without a message or with a
\* negative historyLength raises InvalidParams, and a run that raised has
\* enqueued no event and no snapshot: nothing is stored for its task.
C12_InvalidParamsBeforeEvents ==
    \A r \in Runs :
        /\ (rpc[r] # "idle" /\ (~ rmsg[r] \/ (rcfg[r].given /\ rcfg[r].n < 0)))
                => rpc[r] = "raised"
        /\ rpc[r] = "raised"
                => /\ events[rtask[r]] = <<>>
                   /\ snapshots[rtask[r]] = <<>>
                   /\ status[rtask[r]] = "none"

\* C12 witness: a request with a message and historyLength -1 was rejected
\* while another request went through.
C12_Witness ==
    \E r, q \in Runs :
        /\ rpc[r] = "raised" /\ rmsg[r] /\ rcfg[r] = Length(-1)
        /\ rpc[q] = "done"

\* The histories of the snapshots a run of the executor has enqueued so far,
\* were they whole.
FullHistories(n) ==
    SubSeq(<<InitialHistoryFull, FinalHistoryFull>>, 1, n)

\* C13: for every history_length, the snapshots the executor enqueues for
\* persistence carry the full history.
C13_SnapshotsCarryFullHistory ==
    \A t \in TaskIds : snapshots[t] = FullHistories(Len(snapshots[t]))

\* C14: across the snapshots enqueued for a task, each history holds every
\* message of the one before it and is at least as long.
C14_HistoryAppendOnly ==
    \A t \in TaskIds :
        \A i \in 2..Len(snapshots[t]) :
            /\ Len(snapshots[t][i]) >= Len(snapshots[t][i - 1])
            /\ \A j \in DOMAIN snapshots[t][i - 1] :
                \E k \in DOMAIN snapshots[t][i] :
                    snapshots[t][i][k] = snapshots[t][i - 1][j]

RECURSIVE Concat(_)
Concat(parts) ==
    IF parts = <<>> THEN <<>>
    ELSE Concat(SubSeq(parts, 1, Len(parts) - 1)) \o parts[Len(parts)]

\* C15: the chunk events of a non-empty answer carry one artifact_id, the
\* chunks in order, append on every event but the first and last_chunk on the
\* last event of the answer only; once all are enqueued, their fold is one
\* artifact whose parts, one after the other, are the answer.
C15_ChunkAssembly ==
    /\ \A i \in DOMAIN chunkEvents :
            /\ chunkEvents[i].artifact_id = chunkEvents[1].artifact_id
            /\ chunkEvents[i].text = Chunks(answer)[i]
            /\ chunkEvents[i].append = "True" <=> i > 1
            /\ chunkEvents[i].last_chunk = "True" <=> i = NumChunks(answer)
    /\ \A i \in DOMAIN FoldArtifacts(chunkEvents) :
            Concat(FoldArtifacts(chunkEvents)[i].parts)
                = SubSeq(answer, 1, Len(Concat(FoldArtifacts(chunkEvents)[i].parts)))
    /\ (server = "football" /\ rpc[1] \in {"f_complete", "done"}
            /\ answer # <<>>)
            => /\ Len(chunkEvents) = NumChunks(answer)
               /\ Len(FoldArtifacts(chunkEvents)) = 1
               /\ FoldArtifacts(chunkEvents)[1].parts = Chunks(answer)
               /\ Concat(FoldArtifacts(chunkEvents)[1].parts) = answer

\* C15 witness: an answer of three chunks, the last one shorter, was
\* enqueued and the run has returned.
C15_Witness ==
    /\ server = "football"
    /\ rpc[1] = "done"
    /\ Len(chunkEvents) = 3
    /\ Len(chunkEvents[3].text) < chunk_size

\* A call of the store that holds the lock: it is in progress.
InProgress(o) == calls[o].pc = "in"

\* C17: store operations on different task ids are not globally serialized:
\* while a get, save, delete or list involving another task id is in
\* progress, a get or save that has been called can proceed.
C17_NotGloballySerialized ==
    \A o \in StoreCalls, q \in StoreCalls :
        ( /\ o # q
          /\ InProgress(q)
          /\ calls[o].pc = "waiting"
          /\ calls[o].op \in {"get", "save"}
          /\ calls[o].id # calls[q].id )
        => ENABLED LockEnter(o)

\* C18: a save of a task whose id is stored replaces the snapshot and leaves
\* _created_order and _created_at as they are; a save of an id that is not
\* stored puts the id at the end of _created_order, stamped with the time of
\* that save: a sequence of saves lists the ids by first save.
C18_SaveStep ==
    \A o \in StoreCalls :
        (calls[o].pc = "in" /\ calls[o].op = "save" /\ calls'[o].pc = "done")
        => LET id == calls[o].id
           IN  /\ tasks'[id] = StoredTask(id, "c1", calls[o].st)
               /\ IF id \in DOMAIN tasks
                  THEN /\ created_order' = created_order
                       /\ created_at' = created_at
                  ELSE /\ created_order' = Append(created_order, id)
                       /\ created_at'[id] = now
                       /\ \A k \in DOMAIN created_at \ {id} :
                            created_at'[k] = created_at[k]
C18_CreatedOrderStable == [][C18_SaveStep]_vars
\* A stored task was saved again, later than its first save, after a second
\* id had been saved: it is still first in the order.
C18_Witness ==
    \E o \in StoreCalls :
        /\ calls[o].op = "save"
        /\ calls[o].pc = "done"
        /\ ~ calls[o].is_new
        /\ Len(created_order) = 2
        /\ created_order[1] = calls[o].id
        /\ created_order[2] # calls[o].id
        /\ created_at[calls[o].id] < created_at[created_order[2]]
        /\ tasks[calls[o].id].state = S_completed

\* The polls that saw the task in a terminal state.
TerminalPolls == {i \in DOMAIN polled : polled[i] \in TerminalStates}

\* C19: the polling client never hangs: a poll that sees the task in a
\* terminal state (completed, failed, rejected or canceled) is the last
\* poll, and the loop has stopped after it.
C19_PollingStops ==
    \A i \in TerminalPolls : i = Len(polled) /\ ppc = "stopped"

\* What a full run of Cancelable30sExecutor.execute emits: the snapshot, one
\* working status, the progress updates, one artifact, completed.
FullRunEvents(r) ==
    <<TaskEvent("submitted", ByRun(r)), StatusEvent("working", 0, ByRun(r))>>
        \o [i \in 1..6 |->
                StatusEvent("working", <<5, 10, 15, 20, 25, 30>>[i], ByRun(r))]
        \o <<ArtifactEvent(ByRun(r)), StatusEvent("completed", 0, ByRun(r))>>

\* Run r returns with its cancellation flag not set.
C20_ReturnsUnset(r) == rpc[r] # "done" /\ rpc'[r] = "done" /\ rev[r] \notin flagSet'

\* C20: an execute run of Cancelable30sExecutor whose cancellation flag is
\* never set terminates; it has emitted, in this order, the task snapshot, one
\* working status, progress updates exactly at seconds 5, 10, 15, 20, 25 and
\* 30, one artifact, and completed last; and when it returns its task has no
\* entry in CANCEL_EVENT_BY_TASK_ID.
C20_FullRun ==
    /\ [](\A r \in Runs :
            (rpc[r] = "done" /\ rev[r] \notin flagSet)
            => EventsBy(rtask[r], ByRun(r)) = FullRunEvents(r))
    /\ [][\A r \in Runs : C20_ReturnsUnset(r) => table'[rtask[r]] = NoObj]_vars
    /\ \A r \in Runs : (rpc[r] # "idle") ~> (rpc[r] = "done")
\* A run has returned, its flag was never set, and its task is completed.
C20_Witness ==
    \E r \in Runs :
        /\ rpc[r] = "done"
        /\ rev[r] \notin flagSet
        /\ rsec[r] = DURATION_SECONDS
        /\ status[rtask[r]] = "completed"
        /\ table[rtask[r]] = NoObj

\* C21: MultiTurnStreamingExecutor enqueues the task snapshot only when the
\* task is new: the first event of an invocation that creates its task is the
\* snapshot; an invocation that continues a stored task enqueues no snapshot,
\* and its first event is a working status update.
C21_SnapshotOnlyWhenNew ==
    \A r \in Runs :
        rpc[r] # "idle"
            => LET es == EventsBy(rtask[r], ByRun(r))
               IN  IF rnew[r]
                   THEN es # <<>> => es[1].kind = "task"
                   ELSE /\ \A i \in DOMAIN es : es[i].kind # "task"
                        /\ es # <<>> => /\ es[1].kind = "status"
                                        /\ es[1].state = "working"
\* An invocation that continues a task stored in input_required has emitted
\* its first event.
C21_Witness ==
    \E r \in Runs :
        /\ ~ rnew[r]
        /\ rpc[r] = "m2_sleep"
        /\ \E i \in DOMAIN events[rtask[r]] :
            /\ events[rtask[r]][i].by = ByRun(r)
            /\ i > 1
            /\ events[rtask[r]][i - 1].state = "input-required"
            /\ events[rtask[r]][i].state = "working"

\* The places in the events of task t where state st was enqueued.
Emitted(t, st) ==
    {i \in DOMAIN events[t] :
        events[t][i].kind \in {"task", "status"} /\ events[t][i].state = st}

\* C23: for every task of MultiTurnStreamingExecutor and every interleaving
\* of the invocations bound to it, completed is not emitted before
\* input_required has been emitted, and completed is emitted at most once.
C23_CompletedAfterInputOnce ==
    \A t \in TaskIds :
        /\ Cardinality(Emitted(t, "completed")) <= 1
        /\ \A i \in Emitted(t, "completed") :
            \E j \in Emitted(t, "input-required") : j < i

\* The single version of the mode, its own extended-card path, and the
\* other version's.
ModeVersion == IF server = "legacy" THEN "0.3" ELSE "1.0"
OwnCardPath ==
    IF server = "legacy" THEN <<"/", "v", "1", "/", "c", "a", "r", "d">>
    ELSE <<"/", "v", "1", "/", "e", "x", "t", "e", "n", "d", "e", "d",
           "A", "g", "e", "n", "t", "C", "a", "r", "d">>
OtherCardPath ==
    IF server = "v1" THEN <<"/", "v", "1", "/", "c", "a", "r", "d">>
    ELSE <<"/", "v", "1", "/", "e", "x", "t", "e", "n", "d", "e", "d",
           "A", "g", "e", "n", "t", "C", "a", "r", "d">>
ReachesApp == gate.pc = "app" \/ (gate.pc = "done" /\ gate.answer = "app")
Answered == gate.pc = "done"
PathUnderV1 ==
    Len(gate.path) >= 4 /\ SubSeq(gate.path, 1, 4) = <<"/", "v", "1", "/">>

\* C22: a request under /v1/ reaches the application only with an
\* A2A-Version equal to the mode's version, and is answered 400 otherwise;
\* the other version's extended-card path never reaches the application;
\* the mode's own extended-card path reaches it only with a verified bearer
\* token, and is answered 401 otherwise; a path not under /v1/ always
\* passes.
C22_VersionGate ==
    /\ (PathUnderV1 /\ ReachesApp) => gate.requested = ModeVersion
    /\ (PathUnderV1 /\ Answered /\ gate.requested # ModeVersion)
            => gate.answer = "400"
    /\ gate.path = OtherCardPath => ~ ReachesApp
    /\ (gate.path = OwnCardPath /\ ReachesApp) => gate.verified
    /\ (gate.path = OwnCardPath /\ Answered /\ gate.requested = ModeVersion
            /\ ~ gate.verified) => gate.answer = "401"
    /\ (gate.pc # "idle" /\ ~ PathUnderV1) => ReachesApp

\* A cancel call for task t has been made and has not returned.
CancelInProgress(t) ==
    \E c \in Calls : ctask[c] = t /\ cpc[c] \in {"called", "emit"}

\* An execute run for task t has returned, and none is under way.
RunsReturned(t) ==
    /\ \E r \in Runs : rtask[r] = t /\ rpc[r] = "done"
    /\ \A r \in Runs : rtask[r] = t => rpc[r] = "done"

\* C25: CANCEL_EVENT_BY_TASK_ID does not leak: when the execute run of a task
\* has returned and no cancel call for the task is in progress, the table
\* holds no entry for the task.
C25_TableDoesNotLeak ==
    \A t \in TaskIds :
        (RunsReturned(t) /\ ~ CancelInProgress(t)) => table[t] = NoObj

\* C26: BellaVistaExecutor clears its cancel marks: when an execute run for a
\* task id has returned, completed or canceled, and no cancel for the id is
\* in progress, the id is not in _cancelled.
C26_MarksCleared ==
    \A t \in TaskIds :
        (RunsReturned(t) /\ ~ CancelInProgress(t)) => t \notin cancelled

\* No value stands at two places of s.
NoRepeat(s) == \A i, j \in DOMAIN s : s[i] = s[j] => i = j

\* C27: after any sequence of saves and deletes _created_order holds each
\* task id at most once, and no listing, its pages put together, returns a
\* task id twice.
C27_EachIdOnce ==
    /\ NoRepeat(created_order)
    /\ req.call => NoRepeat(resp.page)
    /\ Paging => NoRepeat(acc)

\* The page tokens of the model that are no valid offset: absent, empty, not
\* a number, a negative number.
NotAnOffset == {None, <<>>, <<"a", "b", "c">>, <<"-", "1">>}

\* The first page_size ids of the tasks the filters of the last call keep.
FirstPage ==
    LET filtered == Filtered(req.context_id, req.status)
    IN  SubSeq(filtered, 1,
               IF req.page_size < Len(filtered) THEN req.page_size
               ELSE Len(filtered))

\* C28: list_snapshot called with a page token that is no valid offset
\* returns the first page of the filtered tasks; and a next token it returns
\* is a number, not negative, greater than the offset it used.
C28_InvalidTokenIsOffsetZero ==
    req.call =>
        /\ req.page_token \in NotAnOffset => resp.page = FirstPage
        /\ resp.next # None =>
            /\ IntOf(resp.next).ok
            /\ IntOf(resp.next).val >= 0
            /\ IntOf(resp.next).val >
                    (IF req.page_token \in NotAnOffset THEN 0
                     ELSE IntOf(req.page_token).val)

\* Run r is past its first check of the flag (line 77, sec = 1).
PastFirstCheck(r) ==
    /\ rpc[r] \notin {"idle", "snapshot", "accepted"}
    /\ ~ (rpc[r] = "sleep" /\ rsec[r] = 1)

====
